---- MODULE Spec2Model ----
(***************************************************************************)
(* Smart PyInstaller Builder (pyexe.py): the static dependency analyser,   *)
(* the data/path mapper and the Tk front end that drives them.             *)
(*                                                                         *)
(* Three specifications:                                                   *)
(*   Spec    the BuilderGUI object: its fields and its button handlers.    *)
(*   SpecBuild  the build: triggers, analyses and profile loads of the     *)
(*           main thread interleaved with the steps of the build threads.  *)
(*   SpecFn  the module-level functions, each applied once to arguments    *)
(*           drawn from bounded sets (pc names the function applied,       *)
(*           args its actual parameters, ret the value it returned: a      *)
(*           record, [result |-> b] for a bool, [found |-> S] and          *)
(*           [mapped |-> l], [cmd |-> l] after the local the function      *)
(*           returns).                                                     *)
(*                                                                         *)
(* Representation.  A str is a sequence of one-character strings, so that  *)
(* str.split(".") is computed and not assumed.  A pathlib.Path is its      *)
(* .parts tuple: a sequence of components, absolute iff it starts with     *)
(* "/".  Optional[str] is a record [some, val].                            *)
(***************************************************************************)
EXTENDS Integers, Sequences, FiniteSets, TLC

VARIABLES
    pc, args, ret,                      \* SpecFn: one function application
    script_var, scan_all_var, auto_data_dirs_var,
    manual_datas, manual_hidden,
    detected_imports, detected_dynamic, detected_literal_files,
    detected_collect_all, imports_list, datas_list, removed,
    build_thread, threads, log_queue, log

fnvars == <<pc, args, ret>>
buildvars == <<build_thread, threads, log_queue, log>>
guivars == <<script_var, scan_all_var, auto_data_dirs_var, manual_datas,
             manual_hidden, detected_imports, detected_dynamic,
             detected_literal_files, detected_collect_all, imports_list,
             datas_list, removed, build_thread, threads, log_queue, log>>
vars == <<pc, args, ret, script_var, scan_all_var, auto_data_dirs_var,
          manual_datas, manual_hidden, detected_imports, detected_dynamic,
          detected_literal_files, detected_collect_all, imports_list,
          datas_list, removed, build_thread, threads, log_queue, log>>

(***************************************************************************)
(* Bounds of the model.                                                    *)
(***************************************************************************)
MaxKeywords == 2
MaxAliases == 2
MaxStmts == 2
MaxMatches == 2
MaxPaths == 2
MaxManual == 2
MaxSelected == 2
LinkFuel == 3
MaxBuilds == 2
MaxLines == 2

(***************************************************************************)
(* Sequences and strings.                                                  *)
(***************************************************************************)
Range(s) == {s[i] : i \in 1..Len(s)}

SeqsUpTo(S, n) == UNION {[1..k -> S] : k \in 0..n}

IsPrefix(s, t) == Len(s) <= Len(t) /\ SubSeq(t, 1, Len(s)) = s

\* s.split(".")[0]: the characters before the first dot.
RECURSIVE SplitFirst(_)
SplitFirst(s) ==
    IF s = <<>> \/ Head(s) = "." THEN <<>>
    ELSE <<Head(s)>> \o SplitFirst(Tail(s))

top_level_module(name) ==
    IF name # <<>> THEN SplitFirst(name) ELSE name

NoneStr == [some |-> FALSE, val |-> <<>>]
SomeStr(s) == [some |-> TRUE, val |-> s]
\* Python truthiness of an Optional[str]: neither None nor "".
Truthy(o) == o.some /\ o.val # <<>>

(***************************************************************************)
(* Paths and the file system.                                              *)
(* fs maps each absolute, symlink-free path it knows to a node             *)
(* [kind, target]; every other path is missing.                            *)
(***************************************************************************)
Cwd == <<"/", "proj">>

is_absolute(p) == p # <<>> /\ Head(p) = "/"

\* Path.parent: the root is its own parent; the parent of a one-component
\* relative path is Path("."), the empty tuple.
Parent(p) ==
    IF p = <<>> \/ p = <<"/">> THEN p ELSE SubSeq(p, 1, Len(p) - 1)

\* Path.name: the last component, "" for the root and for Path(".").
Name(p) == IF p = <<>> \/ p = <<"/">> THEN "" ELSE p[Len(p)]

\* Path.parents: every proper ancestor.
Parents(p) == {SubSeq(p, 1, k) : k \in 1..(Len(p) - 1)}

Join(a, b) == IF is_absolute(b) THEN b ELSE a \o b

Kind(fs, p) == IF p \in DOMAIN fs THEN fs[p].kind ELSE "missing"

\* Walks the components of rest from the resolved directory cur.  strict is
\* the kernel's lookup (stat): a missing component, or a component below a
\* regular file, fails with <<>>.  Non-strict is os.path.realpath, which keeps
\* the remaining components lexically.
RECURSIVE Walk(_, _, _, _, _)
Walk(fs, cur, rest, strict, fuel) ==
    IF rest = <<>> THEN cur
    ELSE LET c == Head(rest)
             nxt == cur \o <<c>>
         IN  IF c = ".." THEN Walk(fs, Parent(cur), Tail(rest), strict, fuel)
             ELSE IF Kind(fs, nxt) = "link" /\ fuel > 0
             THEN Walk(fs, <<"/">>, Tail(fs[nxt].target) \o Tail(rest), strict, fuel - 1)
             ELSE IF Kind(fs, nxt) = "dir"
             THEN Walk(fs, nxt, Tail(rest), strict, fuel)
             ELSE IF Kind(fs, nxt) = "file" /\ Tail(rest) = <<>>
             THEN nxt
             ELSE IF strict THEN <<>>
             ELSE Walk(fs, nxt, Tail(rest), strict, fuel)

Absolute(p) == IF is_absolute(p) THEN p ELSE Cwd \o p

\* Path.resolve(): absolute, symlinks followed, ".." removed.
Resolve(fs, p) == Walk(fs, <<"/">>, Tail(Absolute(p)), FALSE, LinkFuel)

\* os.stat(p): the node p denotes, <<>> when there is none.
Stat(fs, p) == Walk(fs, <<"/">>, Tail(Absolute(p)), TRUE, LinkFuel)

exists(fs, p) == Stat(fs, p) # <<>>

is_file(fs, p) == Stat(fs, p) # <<>> /\ Kind(fs, Stat(fs, p)) = "file"

is_dir(fs, p) == Stat(fs, p) # <<>> /\ Kind(fs, Stat(fs, p)) = "dir"

\* p.relative_to(root): [ok, rel]; ok is FALSE where pathlib raises ValueError.
relative_to(p, root) ==
    IF IsPrefix(root, p)
    THEN [ok |-> TRUE, rel |-> SubSeq(p, Len(root) + 1, Len(p))]
    ELSE [ok |-> FALSE, rel |-> <<>>]

\* str(rel.parent) and str(rel) of a relative path; "." for the empty path.
StrRel(rel) == IF rel = <<>> THEN <<".">> ELSE rel

Dir == [kind |-> "dir", target |-> <<>>]
File == [kind |-> "file", target |-> <<>>]
Link(t) == [kind |-> "link", target |-> t]

(***************************************************************************)
(* The world the functions run in: a project under /proj, a file outside   *)
(* it, the interpreter's standard library under /lib, installed packages   *)
(* under /site.  WorldWith varies the nodes the literal scan looks at.     *)
(***************************************************************************)
P(a) == <<"/", a>>
P2(a, b) == <<"/", a, b>>
P3(a, b, c) == <<"/", a, b, c>>

Missing == [kind |-> "missing", target |-> <<>>]

WorldWith(aTxt, lnkTxt, cCsv) ==
    (P("proj") :> Dir) @@ (P2("proj", "main.py") :> File)
    @@ (P2("proj", "util.py") :> File)
    @@ (P2("proj", "run.py") :> Link(P2("proj", "main.py")))
    @@ (P2("proj", "a.txt") :> aTxt)
    @@ (P2("proj", "lnk.txt") :> lnkTxt)
    @@ (P2("proj", "data") :> Dir)
    @@ (P3("proj", "data", "b.json") :> File)
    @@ (P2("proj", "sub") :> Dir)
    @@ (P3("proj", "sub", "mod.py") :> File)
    @@ (P("ext") :> Dir) @@ (P2("ext", "c.csv") :> cCsv)
    @@ (P("lib") :> Dir) @@ (P2("lib", "os.py") :> File)
    @@ (P("site") :> Dir) @@ (P2("site", "rq.py") :> File)
    @@ (P("lnk") :> Link(P("lib")))

World == WorldWith(File, Link(P2("proj", "a.txt")), File)

Worlds ==
    {WorldWith(a, l, c) : a \in {File, Dir, Missing},
                          l \in {Link(P2("proj", "a.txt")), Link(P2("ext", "c.csv")),
                                 Missing},
                          c \in {File, Missing}}

\* sysconfig.get_paths()["stdlib"]
StdlibPath == P("lib")

(***************************************************************************)
(* Module Classifier.                                                      *)
(* env.find_spec[m] is what importlib.util.find_spec(m) does in the        *)
(* running interpreter: [kind |-> "error"] when it raises, "none" when it  *)
(* returns None, else a spec whose origin is None, "built-in" or a path.   *)
(***************************************************************************)
SpecNone == [kind |-> "none", tag |-> "None", path |-> <<>>]
SpecError == [kind |-> "error", tag |-> "None", path |-> <<>>]
SpecNoOrigin == [kind |-> "spec", tag |-> "None", path |-> <<>>]
SpecBuiltin == [kind |-> "spec", tag |-> "built-in", path |-> <<>>]
SpecAt(p) == [kind |-> "spec", tag |-> "path", path |-> p]

is_third_party_pkg_first(mod, stdlib, pkg_map, env) ==
    LET m == top_level_module(mod)
    IN  IF m = <<>> THEN FALSE
        ELSE IF m \in DOMAIN pkg_map THEN TRUE
        ELSE IF m \in stdlib THEN FALSE
        ELSE LET spec == env.find_spec[m]
             IN  IF spec.kind = "error" THEN TRUE
                 ELSE IF spec.kind = "none" \/ spec.tag \in {"None", "built-in"}
                 THEN FALSE
                 ELSE LET stdlib_path == Resolve(env.fs, env.stdlib_path)
                          origin == Resolve(env.fs, spec.path)
                      IN  stdlib_path \notin Parents(origin) /\ origin # stdlib_path

is_third_party(mod, stdlib, pkg_map, env) ==
    LET m == top_level_module(mod)
    IN  IF m = <<>> \/ m \in stdlib THEN FALSE
        ELSE IF m \in DOMAIN pkg_map THEN TRUE
        ELSE LET spec == env.find_spec[m]
             IN  IF spec.kind = "error" THEN TRUE
                 ELSE IF spec.kind = "none" \/ spec.tag \in {"None", "built-in"}
                 THEN FALSE
                 ELSE LET stdlib_path == Resolve(env.fs, env.stdlib_path)
                          origin == Resolve(env.fs, spec.path)
                      IN  stdlib_path \notin Parents(origin) /\ origin # stdlib_path

(***************************************************************************)
(* Source Import Extractor.                                                *)
(* A syntax-tree node is a record with a type; a Constant carries a value  *)
(* that is a str (isstr) or something else (a number, bytes).              *)
(***************************************************************************)
ConstStr(s) == [type |-> "Constant", isstr |-> TRUE, value |-> s]
ConstOther == [type |-> "Constant", isstr |-> FALSE, value |-> <<>>]
NameNode == [type |-> "Name", isstr |-> FALSE, value |-> <<>>]

_extract_str_constant(node) ==
    IF node.type = "Constant"
    THEN IF node.isstr THEN SomeStr(node.value) ELSE NoneStr
    ELSE NoneStr

\* The keyword loop of lines 164-168: mod is overwritten by every name=/module=
\* keyword until one is truthy.
RECURSIVE KeywordModule(_, _)
KeywordModule(keywords, mod) ==
    IF keywords = <<>> THEN mod
    ELSE LET kw == Head(keywords)
         IN  IF kw.arg \in {"name", "module"}
             THEN LET m == _extract_str_constant(kw.value)
                  IN  IF Truthy(m) THEN m ELSE KeywordModule(Tail(keywords), m)
             ELSE KeywordModule(Tail(keywords), mod)

\* func_name of lines 151-155.
FuncName(node) ==
    IF node.func.type \in {"Attribute", "Name"} THEN node.func.id ELSE ""

\* mod at line 169, for a call whose callee is a dynamic-import name.
CallModule(node) ==
    LET positional == IF node.args # <<>>
                      THEN _extract_str_constant(node.args[1]) ELSE NoneStr
    IN  IF positional.some THEN positional
        ELSE KeywordModule(node.keywords, NoneStr)

VisitCall_no_keywords(node, acc) ==
    IF FuncName(node) \in {"import_module", "__import__"}
    THEN LET mod == IF node.args # <<>>
                    THEN _extract_str_constant(node.args[1]) ELSE NoneStr
         IN  IF Truthy(mod)
             THEN [acc EXCEPT !.dynamic = @ \cup {top_level_module(mod.val)}]
             ELSE acc
    ELSE acc

VisitCall(node, acc) ==
    IF FuncName(node) \in {"import_module", "__import__"}
    THEN LET mod == CallModule(node)
         IN  IF Truthy(mod)
             THEN [acc EXCEPT !.dynamic = @ \cup {top_level_module(mod.val)}]
             ELSE acc
    ELSE acc

VisitImport_full_name(node, acc) ==
    [acc EXCEPT !.imports =
        @ \cup {node.names[i] : i \in {j \in 1..Len(node.names) : node.names[j] # <<>>}}]

VisitImport(node, acc) ==
    [acc EXCEPT !.imports =
        @ \cup {top_level_module(node.names[i]) :
                   i \in {j \in 1..Len(node.names) : node.names[j] # <<>>}}]

VisitImportFrom(node, acc) ==
    IF Truthy(node.module)
    THEN [acc EXCEPT !.imports = @ \cup {top_level_module(node.module.val)}]
    ELSE acc

\* The body of the loop over ast.walk(tree), lines 141-172.
VisitNode(node, acc) ==
    IF node.type = "Import" THEN VisitImport(node, acc)
    ELSE IF node.type = "ImportFrom" THEN VisitImportFrom(node, acc)
    ELSE IF node.type = "Call" THEN VisitCall(node, acc)
    ELSE acc

RECURSIVE WalkTree(_, _)
WalkTree(nodes, acc) ==
    IF nodes = <<>> THEN acc
    ELSE WalkTree(Tail(nodes), VisitNode(Head(nodes), acc))

EmptyParse == [raised |-> FALSE, imports |-> {}, dynamic |-> {}]

\* Without the try/except of lines 137 and 173 a failing file raises.
parse_imports_from_file_no_try(src) ==
    IF ~src.readable \/ ~src.parses
    THEN [EmptyParse EXCEPT !.raised = TRUE]
    ELSE WalkTree(src.tree, EmptyParse)

\* src is what the file holds: whether read_text succeeds (readable), whether
\* ast.parse accepts the text (parses), the nodes of its tree, and the
\* FILE_EXT_PATTERN matches of its text.
parse_imports_from_file(src) ==
    IF ~src.readable \/ ~src.parses THEN EmptyParse
    ELSE WalkTree(src.tree, EmptyParse)


(***************************************************************************)
(* Literal File Reference Extractor.                                       *)
(* src.matches are the FILE_EXT_PATTERN matches of the text, each already  *)
(* a Path (its components).                                                *)
(***************************************************************************)
Candidate(py_file, raw, fs) ==
    IF ~is_absolute(raw) THEN Resolve(fs, Join(Parent(py_file), raw)) ELSE raw

find_literal_files_no_check(py_file, project_root, src, fs) ==
    IF ~src.readable THEN {}
    ELSE {Candidate(py_file, src.matches[i], fs) :
            i \in {j \in 1..Len(src.matches) : src.matches[j] # <<>>}}

find_literal_files(py_file, project_root, src, fs) ==
    IF ~src.readable THEN {}
    ELSE {c \in {Candidate(py_file, src.matches[i], fs) :
                    i \in {j \in 1..Len(src.matches) : src.matches[j] # <<>>}} :
            exists(fs, c) /\ is_file(fs, c)}

(***************************************************************************)
(* Project Scanner.                                                        *)
(* disk maps a regular file (its resolved path) to what it holds; a path   *)
(* that is no regular file, or a file disk does not know, cannot be read.  *)
(***************************************************************************)
PyNames == {"main.py", "util.py", "mod.py", "run.py"}

Unreadable == [readable |-> FALSE, parses |-> FALSE, tree |-> <<>>, matches |-> <<>>]

ReadSrc(fs, disk, f) ==
    IF is_file(fs, f) /\ Stat(fs, f) \in DOMAIN disk
    THEN disk[Stat(fs, f)] ELSE Unreadable

\* project_root.rglob("*.py"): every entry below root whose name ends in .py,
\* reached through real directories.
RGlobPy(fs, root) ==
    {p \in DOMAIN fs :
        /\ IsPrefix(root, p) /\ p # root
        /\ Kind(fs, p) # "missing"
        /\ Name(p) \in PyNames
        /\ \A k \in (Len(root) + 1)..(Len(p) - 1) : Kind(fs, SubSeq(p, 1, k)) = "dir"}

\* set(files) of line 215.
ScanFiles(script_path, scan_all_py, fs) ==
    LET project_root == Resolve(fs, Parent(script_path))
    IN  {script_path} \cup
        (IF scan_all_py
         THEN {Resolve(fs, p) : p \in {q \in RGlobPy(fs, project_root) : is_file(fs, q)}}
         ELSE {})

scan_project(script_path, scan_all_py, fs, disk) ==
    LET project_root == Resolve(fs, Parent(script_path))
        files == ScanFiles(script_path, scan_all_py, fs)
        parsed == [f \in files |-> parse_imports_from_file(ReadSrc(fs, disk, f))]
    IN  [raised |-> \E f \in files : parsed[f].raised,
         files |-> files,
         project_root |-> project_root,
         imports |-> UNION {parsed[f].imports : f \in files},
         dynamic_imports |-> UNION {parsed[f].dynamic : f \in files},
         literal_files |->
            UNION {find_literal_files(f, project_root, ReadSrc(fs, disk, f), fs) :
                      f \in files}]

(***************************************************************************)
(* Data/Path Mapper.  A destination is a relative path, "." the current    *)
(* directory.                                                              *)
(***************************************************************************)
AUTO_DATA_DIRS ==
    <<"assets", "data", "resources", "templates", "static", "config", "images", "locale">>

RECURSIVE ExistingDirs(_, _, _)
ExistingDirs(s, fs, root) ==
    IF s = <<>> THEN <<>>
    ELSE LET d == root \o <<Head(s)>>
         IN  (IF exists(fs, d) /\ is_dir(fs, d) THEN <<<<d, <<Head(s)>>>>>> ELSE <<>>)
             \o ExistingDirs(Tail(s), fs, root)

auto_data_dirs(project_root, fs) == ExistingDirs(AUTO_DATA_DIRS, fs, project_root)

MapEntry_parent_for_all(path, project_root, fs) ==
    LET p == Resolve(fs, path)
        r == relative_to(p, project_root)
    IN  <<p, IF r.ok THEN StrRel(Parent(r.rel)) ELSE <<Name(p)>>>>

MapEntry(path, project_root, fs) ==
    LET p == Resolve(fs, path)
        r == relative_to(p, project_root)
        dest == IF r.ok
                THEN (IF is_file(fs, p) THEN StrRel(Parent(r.rel)) ELSE StrRel(r.rel))
                ELSE <<Name(p)>>
    IN  <<p, dest>>

map_add_data_entries(paths, project_root, fs) ==
    [i \in 1..Len(paths) |-> MapEntry(paths[i], project_root, fs)]


(***************************************************************************)
(* Argument sets of SpecFn.                                                *)
(***************************************************************************)
Na == <<"a">>
Nb == <<"b">>
Nab == <<"a", ".", "b">>
Nba == <<"b", ".", "a">>
NdotA == <<".", "a">>

Mods == {<<>>, Na, Nb, Nab, Nba, NdotA}

PkgMaps == {[k \in keys |-> "dist"] : keys \in SUBSET {Na, Nb}}

FindSpecOutcomes ==
    {SpecNone, SpecError, SpecNoOrigin, SpecBuiltin,
     SpecAt(P2("lib", "os.py")), SpecAt(P("lib")), SpecAt(P2("site", "rq.py")),
     SpecAt(P2("lnk", "os.py")), SpecAt(P("lnk"))}

ImportNode(names) == [type |-> "Import", names |-> names]
ImportFromNode(module) == [type |-> "ImportFrom", module |-> module]
OtherNode == [type |-> "Module"]
CallNode(func, a, kws) == [type |-> "Call", func |-> func, args |-> a, keywords |-> kws]

\* import X[, Y]: one or more dotted names, none empty.
ImportNodes ==
    {ImportNode(n) : n \in SeqsUpTo({Na, Nab, Nb}, MaxAliases) \ {<<>>}}

\* from X import ..., from . import ... (module None).
ImportFromNodes == {ImportFromNode(m) : m \in {NoneStr, SomeStr(Na), SomeStr(Nab), SomeStr(Nb)}}

StaticNodes == ImportNodes \cup ImportFromNodes \cup {OtherNode}

Callees ==
    {[type |-> "Attribute", id |-> "import_module"], [type |-> "Name", id |-> "__import__"],
     [type |-> "Name", id |-> "print"], [type |-> "Subscript", id |-> ""]}

PositionalArgs == {NameNode, ConstOther, ConstStr(<<>>), ConstStr(Nab), ConstStr(NdotA)}

Keywords ==
    {[arg |-> k, value |-> v] : k \in {"name", "module", "package"},
                                v \in {NameNode, ConstStr(<<>>), ConstStr(Nb)}}

CallNodes ==
    {CallNode(f, a, kws) : f \in Callees,
                           a \in {<<>>} \cup {<<x>> : x \in PositionalArgs},
                           kws \in SeqsUpTo(Keywords, MaxKeywords)}

Parsed(tree) == [readable |-> TRUE, parses |-> TRUE, tree |-> tree, matches |-> <<>>]

StaticFiles == {Parsed(t) : t \in SeqsUpTo(StaticNodes, MaxStmts)}

DynamicFiles ==
    {Parsed(<<c>>) : c \in CallNodes}
    \cup {Parsed(<<s, c>>) : s \in {ImportNode(<<Nb>>), ImportFromNode(SomeStr(Nab))},
                             c \in CallNodes}

RawMatches ==
    {<<"a.txt">>, <<"..", "a.txt">>, <<"lnk.txt">>, <<"data", "b.json">>,
     <<"gone.txt">>, P2("ext", "c.csv"), P2("proj", "lnk.txt"),
     <<"/", "proj", "sub", "..", "a.txt">>}

ScannedFrom == {P2("proj", "main.py"), P3("proj", "sub", "mod.py"), <<"main.py">>}

InputPaths ==
    {P2("proj", "a.txt"), P2("proj", "lnk.txt"), P2("proj", "data"),
     P3("proj", "data", "b.json"), P2("ext", "c.csv"), P("ext"), P("proj"),
     <<"/", "proj", "sub", "..", "a.txt">>, P2("proj", "gone.txt")}

DistinctSeqs(S, n) ==
    {s \in SeqsUpTo(S, n) : \A i, j \in 1..Len(s) : i # j => s[i] # s[j]}

ScriptPaths ==
    {P2("proj", "main.py"), <<"main.py">>, P2("proj", "run.py"),
     <<"/", "proj", "sub", "..", "main.py">>, P3("proj", "sub", "mod.py"),
     P2("proj", "gone.py")}

PyFiles == {P2("proj", "main.py"), P2("proj", "util.py"), P3("proj", "sub", "mod.py")}

SrcChoices ==
    {[readable |-> TRUE, parses |-> TRUE,
      tree |-> <<ImportNode(<<Nab>>), CallNode([type |-> "Name", id |-> "__import__"],
                                                <<ConstStr(Nb)>>, <<>>)>>,
      matches |-> <<<<"a.txt">>>>],
     [readable |-> TRUE, parses |-> TRUE,
      tree |-> <<ImportFromNode(SomeStr(Nb))>>, matches |-> <<P2("ext", "c.csv")>>],
     [readable |-> TRUE, parses |-> FALSE,
      tree |-> <<ImportNode(<<Na>>)>>, matches |-> <<P3("proj", "data", "b.json")>>],
     [readable |-> FALSE, parses |-> FALSE,
      tree |-> <<ImportNode(<<Na>>)>>, matches |-> <<<<"a.txt">>>>],
     [readable |-> TRUE, parses |-> TRUE, tree |-> <<>>, matches |-> <<>>]}

Disks == [PyFiles -> SrcChoices]


(***************************************************************************)
(* Text: the order of characters (ASCII), of strings and of paths, and     *)
(* sorted().                                                               *)
(***************************************************************************)
Alphabet ==
    <<" ", "(", ")", "-", ".", "/", "0", "1", "2", "3", "4", "5", "6", "7", "8", "9", ">", "A", "B", "C", "D", "E", "F", "G", "H", "I", "J", "K", "L", "M", "N", "O", "P", "Q", "R", "S", "T", "U", "V", "W", "X", "Y", "Z", "_", "a", "b", "c", "d", "e", "f", "g", "h", "i", "j", "k", "l", "m", "n", "o", "p", "q", "r", "s", "t", "u", "v", "w", "x", "y", "z">>

OrdTable == [c \in Range(Alphabet) |-> CHOOSE i \in 1..Len(Alphabet) : Alphabet[i] = c]

Ord(c) == OrdTable[c]

\* a < b for two str.
RECURSIVE StrLess(_, _)
StrLess(a, b) ==
    IF b = <<>> THEN FALSE
    ELSE IF a = <<>> THEN TRUE
    ELSE IF Head(a) = Head(b) THEN StrLess(Tail(a), Tail(b))
    ELSE Ord(Head(a)) < Ord(Head(b))

\* The characters of a path component.
Chars(name) ==
    CASE name = "proj" -> <<"p", "r", "o", "j">>
      [] name = "main.py" -> <<"m", "a", "i", "n", ".", "p", "y">>
      [] name = "util.py" -> <<"u", "t", "i", "l", ".", "p", "y">>
      [] name = "run.py" -> <<"r", "u", "n", ".", "p", "y">>
      [] name = "a.txt" -> <<"a", ".", "t", "x", "t">>
      [] name = "lnk.txt" -> <<"l", "n", "k", ".", "t", "x", "t">>
      [] name = "data" -> <<"d", "a", "t", "a">>
      [] name = "b.json" -> <<"b", ".", "j", "s", "o", "n">>
      [] name = "sub" -> <<"s", "u", "b">>
      [] name = "mod.py" -> <<"m", "o", "d", ".", "p", "y">>
      [] name = "ext" -> <<"e", "x", "t">>
      [] name = "c.csv" -> <<"c", ".", "c", "s", "v">>
      [] name = "gone.py" -> <<"g", "o", "n", "e", ".", "p", "y">>
      [] name = "gone.txt" -> <<"g", "o", "n", "e", ".", "t", "x", "t">>
      [] name = "lib" -> <<"l", "i", "b">>
      [] name = "os.py" -> <<"o", "s", ".", "p", "y">>
      [] name = "site" -> <<"s", "i", "t", "e">>
      [] name = "rq.py" -> <<"r", "q", ".", "p", "y">>
      [] name = "lnk" -> <<"l", "n", "k">>
      [] name = ".." -> <<".", ".">>
      [] name = "." -> <<".">>
      [] OTHER -> <<>>

\* a < b for two Path: their parts compared in order.
RECURSIVE PathLess(_, _)
PathLess(a, b) ==
    IF b = <<>> THEN FALSE
    ELSE IF a = <<>> THEN TRUE
    ELSE IF Head(a) = Head(b) THEN PathLess(Tail(a), Tail(b))
    ELSE StrLess(Chars(Head(a)), Chars(Head(b)))

RECURSIVE SortedStrs(_)
SortedStrs(S) ==
    IF S = {} THEN <<>>
    ELSE LET m == CHOOSE x \in S : \A y \in S \ {x} : StrLess(x, y)
         IN  <<m>> \o SortedStrs(S \ {m})

RECURSIVE SortedPaths(_)
SortedPaths(S) ==
    IF S = {} THEN <<>>
    ELSE LET m == CHOOSE x \in S : \A y \in S \ {x} : PathLess(x, y)
         IN  <<m>> \o SortedPaths(S \ {m})

RECURSIVE JoinChars(_)
JoinChars(parts) ==
    IF parts = <<>> THEN <<>>
    ELSE IF Len(parts) = 1 THEN Chars(parts[1])
    ELSE Chars(Head(parts)) \o <<"/">> \o JoinChars(Tail(parts))

\* str(p)
StrOfPath(p) ==
    IF p = <<>> THEN <<".">>
    ELSE IF Head(p) = "/" THEN <<"/">> \o JoinChars(Tail(p))
    ELSE JoinChars(p)

(***************************************************************************)
(* Heavy-Dependency Advisor.                                               *)
(***************************************************************************)
NPIL == <<"P", "I", "L">>
NPillow == <<"P", "i", "l", "l", "o", "w">>

HEAVY_LIBS ==
    {<<"m", "a", "t", "p", "l", "o", "t", "l", "i", "b">>,
     <<"s", "k", "l", "e", "a", "r", "n">>,
     <<"c", "v", "2">>,
     <<"P", "I", "L">>,
     <<"P", "i", "l", "l", "o", "w">>,
     <<"n", "l", "t", "k">>,
     <<"s", "p", "a", "c", "y">>,
     <<"t", "o", "r", "c", "h">>,
     <<"t", "r", "a", "n", "s", "f", "o", "r", "m", "e", "r", "s">>,
     <<"o", "p", "e", "n", "p", "y", "x", "l">>,
     <<"p", "y", "d", "a", "n", "t", "i", "c">>,
     <<"j", "i", "n", "j", "a", "2">>,
     <<"y", "a", "m", "l">>,
     <<"c", "r", "y", "p", "t", "o", "g", "r", "a", "p", "h", "y">>,
     <<"n", "u", "m", "b", "a">>,
     <<"s", "c", "i", "p", "y">>}

suggest_collect_all_no_remap(imports) ==
    SortedStrs({top_level_module(m) :
                  m \in {n \in imports : top_level_module(n) \in HEAVY_LIBS}})

suggest_collect_all(imports) ==
    SortedStrs({IF top_level_module(m) # NPIL THEN top_level_module(m) ELSE NPillow :
                  m \in {n \in imports : top_level_module(n) \in HEAVY_LIBS}})

(***************************************************************************)
(* Command Assembler.                                                      *)
(* The command is a list of str; an element is [opt |-> "--x"] for an      *)
(* option the code writes as a literal and [arg |-> text] for a value it   *)
(* computes, text being the str.  a is the record of build_command's       *)
(* parameters, env what it reads besides: the file system, sys.executable  *)
(* and os.name.                                                            *)
(***************************************************************************)
Opt(o) == [opt |-> o]
Arg(text) == [arg |-> text]

NPyInstaller == <<"P", "y", "I", "n", "s", "t", "a", "l", "l", "e", "r">>

NonePath == [some |-> FALSE, val |-> <<>>]
SomePath(p) == [some |-> TRUE, val |-> p]

data_sep(os_name) == IF os_name = "nt" THEN <<";">> ELSE <<":">>

quote_path(p) == StrOfPath(p)

\* for x in values: cmd += [opt, text(x)]
RECURSIVE Repeated(_, _)
Repeated(opt, texts) ==
    IF texts = <<>> THEN <<>>
    ELSE <<Opt(opt), Arg(Head(texts))>> \o Repeated(opt, Tail(texts))

AddDataTexts(add_datas, os_name) ==
    [i \in 1..Len(add_datas) |->
        quote_path(add_datas[i][1]) \o data_sep(os_name) \o StrOfPath(add_datas[i][2])]

PathTexts(paths) == [i \in 1..Len(paths) |-> quote_path(paths[i])]

\* Lines 338-349: the interpreter, the switches, --name and --icon.
CommandHead(a, env) ==
    <<Arg(env.executable), Opt("-m"), Arg(NPyInstaller)>>
    \o (IF a.clean THEN <<Opt("--clean")>> ELSE <<>>)
    \o (IF a.noconfirm THEN <<Opt("--noconfirm")>> ELSE <<>>)
    \o <<Opt(IF a.onefile THEN "--onefile" ELSE "--onedir")>>
    \o (IF a.windowed THEN <<Opt("--windowed")>> ELSE <<>>)
    \o (IF Truthy(a.name) THEN <<Opt("--name"), Arg(a.name.val)>> ELSE <<>>)

IconArgs(a, env) ==
    IF a.icon_path.some /\ exists(env.fs, a.icon_path.val)
    THEN <<Opt("--icon"), Arg(quote_path(a.icon_path.val))>> ELSE <<>>

\* Lines 350-358.
ListArgs(a, env) ==
    Repeated("--add-data", AddDataTexts(a.add_datas, env.os_name))
    \o Repeated("--hidden-import", a.hidden_imports)
    \o Repeated("--collect-all", a.collect_all_pkgs)
    \o (IF a.extra_paths.some /\ a.extra_paths.val # <<>>
        THEN Repeated("--paths", PathTexts(a.extra_paths.val)) ELSE <<>>)

\* Lines 359-366.
CommandTail(a, env) ==
    (IF a.noupx THEN <<Opt("--noupx")>> ELSE <<>>)
    \o (IF Truthy(a.runtime_tmpdir)
        THEN <<Opt("--runtime-tmpdir"), Arg(a.runtime_tmpdir.val)>> ELSE <<>>)
    \o (IF a.version_file.some /\ exists(env.fs, a.version_file.val)
        THEN <<Opt("--version-file"), Arg(quote_path(a.version_file.val))>> ELSE <<>>)
    \o <<Arg(quote_path(a.script_path))>>

build_command_lists_last(a, env) ==
    CommandHead(a, env) \o IconArgs(a, env)
    \o SubSeq(CommandTail(a, env), 1, Len(CommandTail(a, env)) - 1)
    \o ListArgs(a, env) \o <<Arg(quote_path(a.script_path))>>

build_command_no_exists(a, env) ==
    CommandHead(a, env)
    \o (IF a.icon_path.some
        THEN <<Opt("--icon"), Arg(quote_path(a.icon_path.val))>> ELSE <<>>)
    \o ListArgs(a, env) \o CommandTail(a, env)

build_command(a, env) ==
    CommandHead(a, env) \o IconArgs(a, env) \o ListArgs(a, env) \o CommandTail(a, env)

(***************************************************************************)
(* The project the GUI is pointed at, and the interpreter it runs in.      *)
(***************************************************************************)
Nos == <<"o", "s">>
Nrequests == <<"r", "e", "q", "u", "e", "s", "t", "s">>
Nutil == <<"u", "t", "i", "l">>
Nyaml == <<"y", "a", "m", "l">>
NyamlLoader == <<"y", "a", "m", "l", ".", "l", "o", "a", "d", "e", "r">>
NosPath == <<"o", "s", ".", "p", "a", "t", "h">>

GuiFs == World

GuiDisk ==
    (P2("proj", "main.py") :>
        [readable |-> TRUE, parses |-> TRUE,
         tree |-> <<ImportNode(<<Nos, Nrequests>>), ImportNode(<<Nutil>>),
                    CallNode([type |-> "Attribute", id |-> "import_module"],
                             <<ConstStr(NyamlLoader)>>, <<>>)>>,
         matches |-> <<<<"a.txt">>, P2("proj", "lnk.txt")>>])
    @@ (P2("proj", "util.py") :>
        [readable |-> TRUE, parses |-> TRUE,
         tree |-> <<ImportFromNode(SomeStr(NosPath))>>,
         matches |-> <<P2("ext", "c.csv")>>])
    @@ (P3("proj", "sub", "mod.py") :>
        [readable |-> TRUE, parses |-> FALSE, tree |-> <<>>, matches |-> <<>>])

\* The module names whose source file lies in the project, with the file.
LocalModules == {<<Nutil, "util.py">>}

\* get_stdlib_modules(), packages_distributions_map() and find_spec of the
\* interpreter the GUI runs in: one whose sys.path does not hold the project
\* directory, so that find_spec knows nothing of util, and one started in the
\* project directory, where find_spec("util") is the project's own util.py.
GuiEnvs ==
    {[stdlib |-> {Nos},
      pkg_map |-> [k \in {Nrequests, Nyaml} |-> "dist"],
      find_spec |-> [n \in {Nutil, Nrequests, Nyaml} |->
                        IF n = Nutil THEN util_spec ELSE SpecNone],
      fs |-> GuiFs, stdlib_path |-> StdlibPath] :
        util_spec \in {SpecNone, SpecAt(P2("proj", "util.py"))}}

GuiScripts == {P2("proj", "main.py"), P2("proj", "gone.py")}

DialogFiles == {P2("proj", "a.txt"), P2("proj", "lnk.txt")}

DialogDirs == {<<>>, P2("proj", "data"), P2("proj", "a.txt")}

Profiles ==
    {[script |-> P2("proj", "main.py"), scan_all |-> TRUE, auto_data_dirs |-> TRUE,
      manual_datas |-> <<<<P2("proj", "data"), <<"data">>>>>>,
      manual_hidden |-> <<Nyaml>>],
     [script |-> P2("proj", "gone.py"), scan_all |-> FALSE, auto_data_dirs |-> FALSE,
      manual_datas |-> <<<<P2("proj", "a.txt"), <<".">>>>>>,
      manual_hidden |-> <<Nrequests>>],
     [script |-> <<>>, scan_all |-> TRUE, auto_data_dirs |-> TRUE,
      manual_datas |-> <<>>, manual_hidden |-> <<>>]}

(***************************************************************************)
(* BuilderGUI: the list boxes.                                             *)
(***************************************************************************)
\* A row of datas_list and the text the Listbox shows for it.
Row(p, dest, tag) == [path |-> p, dest |-> dest, tag |-> tag]

Arrow == <<" ", " ", "-", ">", " ", " ">>

ItemText(row) ==
    CASE row.tag = "manual" -> StrOfPath(row.path) \o Arrow \o StrOfPath(row.dest)
      [] row.tag = "auto" ->
            StrOfPath(row.path) \o <<" ", " ", "(", "a", "u", "t", "o", ")">>
      [] OTHER ->
            StrOfPath(row.path) \o Arrow \o StrOfPath(row.dest)
            \o <<" ", " ", "(", "a", "u", "t", "o", "-", "d", "i", "r", ")">>

RefreshedImportsList(imports, dynamic, hidden) ==
    SortedStrs(imports \cup dynamic \cup Range(hidden))

RefreshedDatasList(manual, literal, auto_dirs, script) ==
    LET lit == SortedPaths(literal)
        dirs == IF auto_dirs /\ script # <<>>
                THEN auto_data_dirs(Resolve(GuiFs, Parent(script)), GuiFs) ELSE <<>>
    IN  [i \in 1..Len(manual) |-> Row(manual[i][1], manual[i][2], "manual")]
        \o [i \in 1..Len(lit) |-> Row(lit[i], <<>>, "auto")]
        \o [i \in 1..Len(dirs) |-> Row(dirs[i][1], dirs[i][2], "auto-dir")]

\* curselection(): the rows selected in a Listbox of n rows.
Selections(n) == {sel \in SUBSET (1..n) : Cardinality(sel) <= MaxSelected}

\* list.remove(t): the first element equal to t goes.
RemoveFirst(s, t) ==
    LET hits == {i \in 1..Len(s) : s[i] = t}
    IN  IF hits = {} THEN s
        ELSE LET k == CHOOSE i \in hits : \A j \in hits : i <= j
             IN  SubSeq(s, 1, k - 1) \o SubSeq(s, k + 1, Len(s))

\* Lines 572-577 for one selected row: the first manual tuple whose path
\* text the row's text starts with is removed.
RemoveForItem(manual, item) ==
    LET hits == {i \in 1..Len(manual) : IsPrefix(StrOfPath(manual[i][1]), item)}
    IN  IF hits = {} THEN manual
        ELSE RemoveFirst(manual, manual[CHOOSE i \in hits : \A j \in hits : i <= j])

\* The loop over the selection, highest index first.
RECURSIVE RemoveSelected(_, _, _)
RemoveSelected(manual, rows, sel) ==
    IF sel = {} THEN manual
    ELSE LET i == CHOOSE x \in sel : \A y \in sel : y <= x
         IN  RemoveSelected(RemoveForItem(manual, ItemText(rows[i])), rows, sel \ {i})

(***************************************************************************)
(* BuilderGUI: what a build is assembled from.                             *)
(***************************************************************************)
RECURSIVE AppendNew(_, _)
AppendNew(result, more) ==
    IF more = <<>> THEN result
    ELSE AppendNew(IF \E i \in 1..Len(result) : result[i] = Head(more)
                   THEN result ELSE Append(result, Head(more)),
                   Tail(more))

\* list(self.detected_literal_files): the set in some order.
ListsOf(S) == {s \in [1..Cardinality(S) -> S] : Range(s) = S}

AssembleDatasFrom(manual, literal_list, auto_dirs, script_text) ==
    LET script == Resolve(GuiFs, script_text)
        project_root == Parent(script)
        mapped_literal == map_add_data_entries(literal_list, project_root, GuiFs)
        with_literal == AppendNew(manual, mapped_literal)
    IN  IF auto_dirs
        THEN AppendNew(with_literal, auto_data_dirs(project_root, GuiFs))
        ELSE with_literal

\* Every list _assemble_datas can return in this state.
_assemble_datas ==
    {AssembleDatasFrom(manual_datas, l, auto_data_dirs_var, script_var) :
        l \in ListsOf(detected_literal_files)}

_assemble_hidden_imports ==
    SortedStrs(detected_imports \cup detected_dynamic \cup Range(manual_hidden))


(***************************************************************************)
(* BuilderGUI.__init__                                                     *)
(***************************************************************************)
GuiInit ==
    /\ script_var = <<>>
    /\ scan_all_var = TRUE
    /\ auto_data_dirs_var = TRUE
    /\ manual_datas = <<>>
    /\ manual_hidden = <<>>
    /\ detected_imports = {}
    /\ detected_dynamic = {}
    /\ detected_literal_files = {}
    /\ detected_collect_all = <<>>
    /\ imports_list = <<>>
    /\ datas_list = <<>>
    /\ removed = {}
    /\ build_thread = 0
    /\ threads = <<>>
    /\ log_queue = <<>>
    /\ log = <<>>

(***************************************************************************)
(* Build profiles: what _save_profile writes and what _load_profile sets.  *)
(* gui is the record of the user's fields; a StringVar holds a str, the    *)
(* lists hold Path objects.  The destination of a manual mapping is a str  *)
(* the model holds as the tuple of its parts.                              *)
(***************************************************************************)
Whitespace == {" ", "\t", "\n"}

RECURSIVE lstrip(_)
lstrip(s) == IF s # <<>> /\ Head(s) \in Whitespace THEN lstrip(Tail(s)) ELSE s

RECURSIVE rstrip(_)
rstrip(s) ==
    IF s # <<>> /\ s[Len(s)] \in Whitespace THEN rstrip(SubSeq(s, 1, Len(s) - 1)) ELSE s

\* str.strip()
strip(s) == rstrip(lstrip(s))

\* The names Chars spells.
PathNames ==
    {"proj", "main.py", "util.py", "run.py", "a.txt", "lnk.txt", "data", "b.json",
     "sub", "mod.py", "ext", "c.csv", "gone.py", "gone.txt", "lib", "os.py", "site",
     "rq.py", "lnk", "..", "."}

\* text.split("/")
RECURSIVE SplitSlash(_, _)
SplitSlash(text, cur) ==
    IF text = <<>> THEN <<cur>>
    ELSE IF Head(text) = "/" THEN <<cur>> \o SplitSlash(Tail(text), <<>>)
    ELSE SplitSlash(Tail(text), Append(cur, Head(text)))

RECURSIVE NamesOf(_)
NamesOf(pieces) ==
    IF pieces = <<>> THEN <<>>
    ELSE <<CHOOSE n \in PathNames : Chars(n) = Head(pieces)>> \o NamesOf(Tail(pieces))

\* The parts of a relative text, as written.
PartsOfStr(text) == NamesOf(SplitSlash(text, <<>>))

RECURSIVE Significant(_)
Significant(pieces) ==
    IF pieces = <<>> THEN <<>>
    ELSE (IF Head(pieces) = <<>> \/ Head(pieces) = <<".">> THEN <<>> ELSE <<Head(pieces)>>)
         \o Significant(Tail(pieces))

\* Path(text): empty and "." components go, a leading "/" is the root.
PathOfStr(text) ==
    LET parts == NamesOf(Significant(SplitSlash(text, <<>>)))
    IN  IF text # <<>> /\ Head(text) = "/" THEN <<"/">> \o parts ELSE parts

\* json.dumps of a str: quoted, with quote, backslash and newline escaped.
RECURSIVE Escaped(_)
Escaped(s) ==
    IF s = <<>> THEN <<>>
    ELSE (CASE Head(s) = "\"" -> <<"\\", "\"">>
            [] Head(s) = "\\" -> <<"\\", "\\">>
            [] Head(s) = "\n" -> <<"\\", "n">>
            [] Head(s) = "\t" -> <<"\\", "t">>
            [] OTHER -> <<Head(s)>>)
         \o Escaped(Tail(s))

JsonStr(s) == <<"\"">> \o Escaped(s) \o <<"\"">>

JsonBool(b) == IF b THEN <<"t", "r", "u", "e">> ELSE <<"f", "a", "l", "s", "e">>

\* json.loads of the text of a str.
RECURSIVE Unescaped(_)
Unescaped(t) ==
    IF t = <<>> THEN <<>>
    ELSE IF Head(t) = "\\"
    THEN <<CASE t[2] = "n" -> "\n" [] t[2] = "t" -> "\t" [] OTHER -> t[2]>>
         \o Unescaped(SubSeq(t, 3, Len(t)))
    ELSE <<Head(t)>> \o Unescaped(Tail(t))

StrOfJson(t) == Unescaped(SubSeq(t, 2, Len(t) - 1))

\* json.loads of true / false, then bool().
BoolOfJson(t) == t = <<"t", "r", "u", "e">>

\* Lines 844-867: the profile dict.
ProfileDict(gui) ==
    [script |-> strip(gui.script_var),
     name |-> strip(gui.name_var),
     icon |-> strip(gui.icon_var),
     onefile |-> gui.onefile_var,
     windowed |-> gui.windowed_var,
     clean |-> gui.clean_var,
     scan_all |-> gui.scan_all_var,
     auto_data_dirs |-> gui.auto_data_dirs_var,
     collect_all |-> gui.collect_all_var,
     extra_paths |-> [i \in 1..Len(gui.extra_paths) |-> StrOfPath(gui.extra_paths[i])],
     manual_datas |-> [i \in 1..Len(gui.manual_datas) |->
                          <<StrOfPath(gui.manual_datas[i][1]),
                            StrOfPath(gui.manual_datas[i][2])>>],
     manual_hidden |-> gui.manual_hidden,
     noupx |-> gui.noupx_var,
     runtime_tmpdir |-> gui.runtime_tmpdir_var,
     profile_meta |-> [use_versioninfo |-> gui.use_versioninfo_var,
                       publisher |-> gui.publisher_var,
                       product |-> gui.product_var,
                       version |-> gui.version_var,
                       description |-> gui.desc_var,
                       copyright |-> gui.copyright_var]]

StrKeys == {"script", "name", "icon", "runtime_tmpdir"}
BoolKeys == {"onefile", "windowed", "clean", "scan_all", "auto_data_dirs", "collect_all",
             "noupx"}
MetaStrKeys == {"publisher", "product", "version", "description", "copyright"}

JsonStrs(l) == [i \in 1..Len(l) |-> JsonStr(l[i])]
StrsOfJson(l) == [i \in 1..Len(l) |-> StrOfJson(l[i])]

\* json.dumps(profile): every str and bool as its JSON text, a tuple as a list.
json_dumps(profile) ==
    [k \in DOMAIN profile |->
        CASE k \in StrKeys -> JsonStr(profile[k])
          [] k \in BoolKeys -> JsonBool(profile[k])
          [] k \in {"extra_paths", "manual_hidden"} -> JsonStrs(profile[k])
          [] k = "manual_datas" ->
                [i \in 1..Len(profile[k]) |-> JsonStrs(profile[k][i])]
          [] OTHER ->
                [m \in DOMAIN profile[k] |->
                    IF m \in MetaStrKeys THEN JsonStr(profile[k][m])
                    ELSE JsonBool(profile[k][m])]]

json_loads(doc) ==
    [k \in DOMAIN doc |->
        CASE k \in StrKeys -> StrOfJson(doc[k])
          [] k \in BoolKeys -> BoolOfJson(doc[k])
          [] k \in {"extra_paths", "manual_hidden"} -> StrsOfJson(doc[k])
          [] k = "manual_datas" -> [i \in 1..Len(doc[k]) |-> StrsOfJson(doc[k][i])]
          [] OTHER ->
                [m \in DOMAIN doc[k] |->
                    IF m \in MetaStrKeys THEN StrOfJson(doc[k][m])
                    ELSE BoolOfJson(doc[k][m])]]

\* Lines 840-843 and 868-869: nothing is written without a script; else the
\* file holds the text of the profile.
SavedProfile(gui) ==
    IF strip(gui.script_var) = <<>> THEN [some |-> FALSE, val |-> <<>>]
    ELSE [some |-> TRUE, val |-> json_dumps(ProfileDict(gui))]

\* dict.get(key, default)
Get(d, key, default) == IF key \in DOMAIN d THEN d[key] ELSE default

\* Lines 881-904: the fields after the assignments of _load_profile.
LoadedFields(profile) ==
    LET m == Get(profile, "profile_meta", <<>>)
        extra == Get(profile, "extra_paths", <<>>)
        datas == Get(profile, "manual_datas", <<>>)
    IN  [script_var |-> Get(profile, "script", <<>>),
         name_var |-> Get(profile, "name", <<>>),
         icon_var |-> Get(profile, "icon", <<>>),
         onefile_var |-> Get(profile, "onefile", TRUE),
         windowed_var |-> Get(profile, "windowed", FALSE),
         clean_var |-> Get(profile, "clean", TRUE),
         scan_all_var |-> Get(profile, "scan_all", TRUE),
         auto_data_dirs_var |-> Get(profile, "auto_data_dirs", TRUE),
         collect_all_var |-> Get(profile, "collect_all", TRUE),
         extra_paths |-> [i \in 1..Len(extra) |-> PathOfStr(extra[i])],
         manual_datas |-> [i \in 1..Len(datas) |->
                              <<PathOfStr(datas[i][1]), PartsOfStr(datas[i][2])>>],
         manual_hidden |-> Get(profile, "manual_hidden", <<>>),
         noupx_var |-> Get(profile, "noupx", TRUE),
         runtime_tmpdir_var |-> Get(profile, "runtime_tmpdir", <<>>),
         use_versioninfo_var |-> Get(m, "use_versioninfo", TRUE),
         publisher_var |-> Get(m, "publisher", <<>>),
         product_var |-> Get(m, "product", <<>>),
         version_var |-> Get(m, "version", <<"1", ".", "0", ".", "0">>),
         desc_var |-> Get(m, "description", <<>>),
         copyright_var |-> Get(m, "copyright", <<>>)]

(***************************************************************************)
(* Arguments of build_command and suggest_collect_all in SpecFn.           *)
(***************************************************************************)
sys_executable == <<"p", "y", "t", "h", "o", "n">>

\* File systems with and without /proj/a.txt, with and without /ext/c.csv.
BuildWorlds ==
    {WorldWith(a, Missing, c) : a \in {File, Missing}, c \in {File, Missing}}

\* build_command asks of icon_path and version_file only whether they exist:
\* any path that is there in one world and not in the other will do.
IconPaths == {NonePath, SomePath(P2("proj", "a.txt"))}

VersionFiles == {NonePath, SomePath(P2("ext", "c.csv"))}

ExeNames == {NoneStr, SomeStr(<<>>), SomeStr(Na)}

TmpDirs == {NoneStr, SomeStr(Nb)}

DataA == <<P2("proj", "a.txt"), <<".">>>>
DataB == <<P2("proj", "data"), <<"data">>>>

AddDatas == {<<>>, <<DataA, DataB>>, <<DataB, DataA>>}

HiddenLists == {<<>>, <<Nb, Na>>}

CollectLists == {<<>>, <<NPillow>>}

ExtraPathLists ==
    {[some |-> FALSE, val |-> <<>>], [some |-> TRUE, val |-> <<>>],
     [some |-> TRUE, val |-> <<P("ext"), P("lib")>>]}

BuildArgs ==
    [script_path : {P2("proj", "main.py")}, name : ExeNames, onefile : BOOLEAN,
     windowed : BOOLEAN, clean : BOOLEAN, icon_path : IconPaths, add_datas : AddDatas,
     hidden_imports : HiddenLists, collect_all_pkgs : CollectLists,
     extra_paths : ExtraPathLists, noconfirm : BOOLEAN, version_file : VersionFiles,
     noupx : BOOLEAN, runtime_tmpdir : TmpDirs]

BuildEnvs == [fs : BuildWorlds, executable : {sys_executable}, os_name : {"posix", "nt"}]

NPILImage == <<"P", "I", "L", ".", "I", "m", "a", "g", "e">>
Ntorch == <<"t", "o", "r", "c", "h">>

ImportSets == SUBSET {NPIL, NPILImage, NPillow, Nyaml, NyamlLoader, Ntorch, Nrequests, Nos}

\* The user's fields before a profile is saved.
ScriptTexts ==
    {<<>>, <<" ">>, StrOfPath(P2("proj", "main.py")),
     <<" ">> \o StrOfPath(P2("proj", "main.py"))}

FieldTexts == {<<>>, Na, <<" ", "a">>, <<"a", "\n">>, <<"a", " ", "\"", "\\">>}

IconTexts == {<<>>, StrOfPath(P2("proj", "a.txt")) \o <<" ">>}

FlagChoices ==
    {[onefile_var |-> a, windowed_var |-> b, clean_var |-> a, scan_all_var |-> b,
      auto_data_dirs_var |-> a, collect_all_var |-> b, noupx_var |-> a,
      use_versioninfo_var |-> b] : a, b \in BOOLEAN}

MetaChoices ==
    {[publisher_var |-> <<>>, product_var |-> <<>>,
      version_var |-> <<"1", ".", "0", ".", "0">>, desc_var |-> <<>>,
      copyright_var |-> <<>>],
     [publisher_var |-> Na, product_var |-> Nb, version_var |-> <<"2">>,
      desc_var |-> <<"a", " ">>, copyright_var |-> <<"(", "c", ")">>]}

GuiFields ==
    {[script_var |-> script, name_var |-> name, icon_var |-> icon,
      runtime_tmpdir_var |-> tmp,
      extra_paths |-> extra, manual_datas |-> datas, manual_hidden |-> hidden]
     @@ flags @@ meta :
        script \in ScriptTexts, name \in FieldTexts, icon \in IconTexts,
        tmp \in {<<>>, <<" ", "a">>},
        extra \in {<<>>, <<P("lib"), P2("proj", "sub")>>},
        datas \in {<<>>, <<DataA, DataB>>},
        hidden \in {<<>>, <<Nb, Na>>},
        flags \in FlagChoices, meta \in MetaChoices}

(***************************************************************************)
(* SpecFn: one application of one module-level function.                   *)
(***************************************************************************)
FnInit == pc = "idle" /\ args = <<>> /\ ret = <<>> /\ GuiInit

CallIsThirdParty ==
    /\ pc = "idle"
    /\ \E mod \in Mods, stdlib \in SUBSET {Na, Nb}, pkg_map \in PkgMaps,
          found \in FindSpecOutcomes :
          LET env == [find_spec |-> [n \in {top_level_module(mod)} |-> found],
                      fs |-> World, stdlib_path |-> StdlibPath]
          IN  /\ args' = [mod |-> mod, stdlib |-> stdlib, pkg_map |-> pkg_map,
                          found |-> found, env |-> env]
              /\ ret' = [result |-> is_third_party(mod, stdlib, pkg_map, env)]
    /\ pc' = "is_third_party"
    /\ UNCHANGED guivars

CallParseStatic ==
    /\ pc = "idle"
    /\ \E src \in StaticFiles :
          /\ args' = [src |-> src]
          /\ ret' = parse_imports_from_file(src)
    /\ pc' = "parse_static"
    /\ UNCHANGED guivars

CallParseDynamic ==
    /\ pc = "idle"
    /\ \E src \in DynamicFiles :
          /\ args' = [src |-> src, call |-> src.tree[Len(src.tree)]]
          /\ ret' = parse_imports_from_file(src)
    /\ pc' = "parse_dynamic"
    /\ UNCHANGED guivars

CallFindLiteralFiles ==
    /\ pc = "idle"
    /\ \E py_file \in ScannedFrom, fs \in Worlds, readable \in BOOLEAN,
          matches \in SeqsUpTo(RawMatches, MaxMatches) :
          LET src == [readable |-> readable, parses |-> TRUE, tree |-> <<>>,
                      matches |-> matches]
              project_root == Resolve(fs, Parent(py_file))
          IN  /\ args' = [py_file |-> py_file, project_root |-> project_root,
                          src |-> src, fs |-> fs]
              /\ ret' = [found |-> find_literal_files(py_file, project_root, src, fs)]
    /\ pc' = "find_literal_files"
    /\ UNCHANGED guivars

CallMapAddDataEntries ==
    /\ pc = "idle"
    /\ \E paths \in DistinctSeqs(InputPaths, MaxPaths), fs \in Worlds :
          /\ args' = [paths |-> paths, project_root |-> P("proj"), fs |-> fs]
          /\ ret' = [mapped |-> map_add_data_entries(paths, P("proj"), fs)]
    /\ pc' = "map_add_data_entries"
    /\ UNCHANGED guivars

CallScanProject ==
    /\ pc = "idle"
    /\ \E script_path \in ScriptPaths, scan_all_py \in BOOLEAN, disk \in Disks :
          /\ args' = [script_path |-> script_path, scan_all_py |-> scan_all_py,
                      fs |-> World, disk |-> disk]
          /\ ret' = scan_project(script_path, scan_all_py, World, disk)
    /\ pc' = "scan_project"
    /\ UNCHANGED guivars

CallBuildCommand ==
    /\ pc = "idle"
    /\ \E a \in BuildArgs, env \in BuildEnvs :
          /\ args' = [a |-> a, env |-> env]
          /\ ret' = [cmd |-> build_command(a, env)]
    /\ pc' = "build_command"
    /\ UNCHANGED guivars

CallSuggestCollectAll ==
    /\ pc = "idle"
    /\ \E imports \in ImportSets :
          /\ args' = [imports |-> imports]
          /\ ret' = [suggested |-> suggest_collect_all(imports)]
    /\ pc' = "suggest_collect_all"
    /\ UNCHANGED guivars

\* _save_profile, then _load_profile of the file just written.
CallSaveLoadProfile ==
    /\ pc = "idle"
    /\ \E gui \in GuiFields :
          LET saved == SavedProfile(gui)
          IN  /\ args' = [gui |-> gui]
              /\ ret' = [saved |-> saved.some,
                         loaded |-> IF saved.some THEN LoadedFields(json_loads(saved.val))
                                    ELSE gui]
    /\ pc' = "save_load_profile"
    /\ UNCHANGED guivars

FnNext ==
    \/ CallIsThirdParty
    \/ CallParseStatic
    \/ CallParseDynamic
    \/ CallFindLiteralFiles
    \/ CallMapAddDataEntries
    \/ CallScanProject
    \/ CallBuildCommand
    \/ CallSuggestCollectAll
    \/ CallSaveLoadProfile

SpecFn == FnInit /\ [][FnNext]_vars


(***************************************************************************)
(* BuilderGUI: the handlers.                                               *)
(***************************************************************************)
\* The guard of _analyze and _build: a script is named and exists.
ScriptOk(script) == script # <<>> /\ exists(GuiFs, script)

\* Lines 665-682: the four detected_* fields after an analysis of script.
Analysis(script, scan_all, env) ==
    LET res == scan_project(script, scan_all, GuiFs, GuiDisk)
        third_party == {m \in res.imports : is_third_party(m, env.stdlib, env.pkg_map, env)}
        dynamic == {m \in res.dynamic_imports :
                      is_third_party(m, env.stdlib, env.pkg_map, env)}
    IN  [imports |-> third_party,
         dynamic |-> dynamic,
         literal_files |-> res.literal_files,
         collect_all |-> suggest_collect_all(third_party \cup dynamic)]

\* Analysis, evaluated once for each script, flag and interpreter.
AnalysisOf ==
    [k \in (GuiScripts \cup {pr.script : pr \in Profiles}) \X BOOLEAN \X GuiEnvs |->
        Analysis(k[1], k[2], k[3])]

ChooseScript ==
    /\ UNCHANGED fnvars
    /\ \E fn \in GuiScripts : script_var' = fn
    /\ UNCHANGED <<scan_all_var, auto_data_dirs_var, manual_datas, manual_hidden,
                   detected_imports, detected_dynamic, detected_literal_files,
                   detected_collect_all, imports_list, datas_list, removed, buildvars>>

ToggleScanAll ==
    /\ UNCHANGED fnvars
    /\ scan_all_var' = ~scan_all_var
    /\ UNCHANGED <<script_var, auto_data_dirs_var, manual_datas, manual_hidden,
                   detected_imports, detected_dynamic, detected_literal_files,
                   detected_collect_all, imports_list, datas_list, removed, buildvars>>

ToggleAutoDataDirs ==
    /\ UNCHANGED fnvars
    /\ auto_data_dirs_var' = ~auto_data_dirs_var
    /\ UNCHANGED <<script_var, scan_all_var, manual_datas, manual_hidden,
                   detected_imports, detected_dynamic, detected_literal_files,
                   detected_collect_all, imports_list, datas_list, removed, buildvars>>

RECURSIVE ChosenFiles(_)
ChosenFiles(fns) ==
    IF fns = <<>> THEN <<>>
    ELSE LET p == Resolve(GuiFs, Head(fns))
         IN  (IF exists(GuiFs, p) /\ is_file(GuiFs, p) THEN <<<<p, <<".">>>>>> ELSE <<>>)
             \o ChosenFiles(Tail(fns))

_add_file_data ==
    /\ UNCHANGED fnvars
    /\ \E fns \in DistinctSeqs(DialogFiles, MaxManual) :
          /\ Len(manual_datas) + Len(fns) <= MaxManual
          /\ manual_datas' = manual_datas \o ChosenFiles(fns)
    /\ datas_list' = RefreshedDatasList(manual_datas', detected_literal_files,
                                        auto_data_dirs_var, script_var)
    /\ UNCHANGED <<script_var, scan_all_var, auto_data_dirs_var, manual_hidden,
                   detected_imports, detected_dynamic, detected_literal_files,
                   detected_collect_all, imports_list, removed, buildvars>>

_add_dir_data ==
    /\ UNCHANGED fnvars
    /\ \E d \in DialogDirs :
          /\ Len(manual_datas) < MaxManual
          /\ LET p == Resolve(GuiFs, d)
             IN  manual_datas' =
                    IF d # <<>> /\ exists(GuiFs, p) /\ is_dir(GuiFs, p)
                    THEN Append(manual_datas, <<p, <<Name(p)>>>>)
                    ELSE manual_datas
    /\ datas_list' = RefreshedDatasList(manual_datas', detected_literal_files,
                                        auto_data_dirs_var, script_var)
    /\ UNCHANGED <<script_var, scan_all_var, auto_data_dirs_var, manual_hidden,
                   detected_imports, detected_dynamic, detected_literal_files,
                   detected_collect_all, imports_list, removed, buildvars>>

_remove_selected_datas ==
    /\ UNCHANGED fnvars
    /\ \E sel \in Selections(Len(datas_list)) :
          manual_datas' = RemoveSelected(manual_datas, datas_list, sel)
    /\ datas_list' = RefreshedDatasList(manual_datas', detected_literal_files,
                                        auto_data_dirs_var, script_var)
    /\ UNCHANGED <<script_var, scan_all_var, auto_data_dirs_var, manual_hidden,
                   detected_imports, detected_dynamic, detected_literal_files,
                   detected_collect_all, imports_list, removed, buildvars>>

\* Lines 601-605: only detected_imports loses the selected items.
RemovedFrom(detected, items) ==
    [imports |-> detected.imports \ items, dynamic |-> detected.dynamic]

_remove_selected_imports ==
    /\ UNCHANGED fnvars
    /\ \E sel \in Selections(Len(imports_list)) :
          LET items == {imports_list[i] : i \in sel}
              left == RemovedFrom([imports |-> detected_imports,
                                   dynamic |-> detected_dynamic], items)
          IN  /\ detected_imports' = left.imports
              /\ detected_dynamic' = left.dynamic
              /\ removed' = removed \cup items
    /\ imports_list' = RefreshedImportsList(detected_imports', detected_dynamic',
                                            manual_hidden)
    /\ UNCHANGED <<script_var, scan_all_var, auto_data_dirs_var, manual_datas,
                   manual_hidden, detected_literal_files, detected_collect_all,
                   datas_list, buildvars>>

_analyze ==
    /\ UNCHANGED fnvars
    /\ \E env \in GuiEnvs :
          IF ScriptOk(script_var)
          THEN LET a == AnalysisOf[<<script_var, scan_all_var, env>>]
               IN  /\ detected_imports' = a.imports
                   /\ detected_dynamic' = a.dynamic
                   /\ detected_literal_files' = a.literal_files
                   /\ detected_collect_all' = a.collect_all
                   /\ removed' = {}
                   /\ imports_list' = RefreshedImportsList(a.imports, a.dynamic, manual_hidden)
                   /\ datas_list' = RefreshedDatasList(manual_datas, a.literal_files,
                                                       auto_data_dirs_var, script_var)
          ELSE UNCHANGED <<detected_imports, detected_dynamic, detected_literal_files,
                           detected_collect_all, removed, imports_list, datas_list>>
    /\ UNCHANGED <<script_var, scan_all_var, auto_data_dirs_var, manual_datas,
                   manual_hidden, buildvars>>

_load_profile ==
    /\ UNCHANGED fnvars
    /\ \E profile \in Profiles, env \in GuiEnvs :
          /\ script_var' = profile.script
          /\ scan_all_var' = profile.scan_all
          /\ auto_data_dirs_var' = profile.auto_data_dirs
          /\ manual_datas' = profile.manual_datas
          /\ manual_hidden' = profile.manual_hidden
          /\ removed' = {}
          /\ IF ScriptOk(profile.script)
             THEN LET a == AnalysisOf[<<profile.script, profile.scan_all, env>>]
                  IN  /\ detected_imports' = a.imports
                      /\ detected_dynamic' = a.dynamic
                      /\ detected_literal_files' = a.literal_files
                      /\ detected_collect_all' = a.collect_all
             ELSE UNCHANGED <<detected_imports, detected_dynamic, detected_literal_files,
                              detected_collect_all>>
    /\ imports_list' = RefreshedImportsList(detected_imports', detected_dynamic',
                                            manual_hidden')
    /\ datas_list' = RefreshedDatasList(manual_datas', detected_literal_files',
                                        auto_data_dirs_var', script_var')
    /\ UNCHANGED buildvars

(***************************************************************************)
(* BuilderGUI: the build.  threads holds the Thread objects                *)
(* _start_build_thread has created, build_thread the index of the one      *)
(* self.build_thread refers to (0: None).  A thread is at "start" before   *)
(* Popen, at "read" while it reads the output of its process, at "logged"  *)
(* once wait() has returned and the result is logged, and "done" when      *)
(* _run_build has returned.  wrote, exited and rc record what its process  *)
(* wrote and how it ended.  log_queue and log hold, of the texts put on    *)
(* self.log_queue and shown in the log widget, those _run_build has put;   *)
(* by names the thread that put the entry.                                 *)
(***************************************************************************)
NewThread == [at |-> "start", out |-> <<>>, wrote |-> <<>>, exited |-> FALSE, rc |-> 0]

Entry(by, kind, text, rc) == [by |-> by, kind |-> kind, text |-> text, rc |-> rc]

\* What a bundler process writes: up to MaxLines lines that decode as text,
\* line end included.
OutputText ==
    [k \in 1..MaxLines |-> IF k % 2 = 1 THEN <<"a", " ", "\n">> ELSE <<"b", "\n">>]

Outputs == {SubSeq(OutputText, 1, n) : n \in 0..MaxLines}

ExitCodes == {0, 1, 2}

\* Thread.is_alive() of self.build_thread.
is_alive_never(ts, i) == FALSE

is_alive(ts, i) == i # 0 /\ ts[i].at # "done"

\* Lines 819-825: what is logged for the return code; dist: cwd/dist exists.
ExitEntries_code_lost(i, rc, dist) ==
    IF rc = 0
    THEN <<Entry(i, "ok", <<>>, 0)>>
         \o (IF dist THEN <<Entry(i, "dist", <<>>, 0)>> ELSE <<>>)
    ELSE <<Entry(i, "failed", <<>>, 1)>>

ExitEntries(i, rc, dist) ==
    IF rc = 0
    THEN <<Entry(i, "ok", <<>>, 0)>>
         \o (IF dist THEN <<Entry(i, "dist", <<>>, 0)>> ELSE <<>>)
    ELSE <<Entry(i, "failed", <<>>, rc)>>

\* available: whether ensure_pyinstaller_available finds the bundler.  The
\* command is assembled, then _start_build_thread starts a thread unless the
\* one self.build_thread refers to is alive.
_build ==
    /\ UNCHANGED fnvars
    /\ Len(threads) < MaxBuilds
    /\ \E available \in BOOLEAN :
          IF ScriptOk(script_var) /\ available /\ ~is_alive(threads, build_thread)
          THEN /\ threads' = Append(threads, NewThread)
               /\ build_thread' = Len(threads) + 1
          ELSE UNCHANGED <<build_thread, threads>>
    /\ UNCHANGED <<log_queue, log>>
    /\ UNCHANGED <<script_var, scan_all_var, auto_data_dirs_var, manual_datas,
                   manual_hidden, detected_imports, detected_dynamic,
                   detected_literal_files, detected_collect_all, imports_list,
                   datas_list, removed>>

\* Lines 807-815: the process is started; out is what it is going to write.
_run_build_Popen ==
    /\ UNCHANGED fnvars
    /\ \E i \in 1..Len(threads), out \in Outputs :
          /\ threads[i].at = "start"
          /\ threads' = [threads EXCEPT ![i] = [@ EXCEPT !.at = "read", !.out = out,
                                                         !.wrote = out]]
    /\ UNCHANGED <<build_thread, log_queue, log>>
    /\ UNCHANGED <<script_var, scan_all_var, auto_data_dirs_var, manual_datas,
                   manual_hidden, detected_imports, detected_dynamic,
                   detected_literal_files, detected_collect_all, imports_list,
                   datas_list, removed>>

\* Lines 826-827: Popen raises (no interpreter, no working directory); no
\* process was started.
_run_build_except ==
    /\ UNCHANGED fnvars
    /\ \E i \in 1..Len(threads) :
          /\ threads[i].at = "start"
          /\ threads' = [threads EXCEPT ![i] = [@ EXCEPT !.at = "logged"]]
          /\ log_queue' = Append(log_queue, Entry(i, "error", <<>>, 0))
    /\ UNCHANGED <<build_thread, log>>
    /\ UNCHANGED <<script_var, scan_all_var, auto_data_dirs_var, manual_datas,
                   manual_hidden, detected_imports, detected_dynamic,
                   detected_literal_files, detected_collect_all, imports_list,
                   datas_list, removed>>

\* Lines 816-817: one line of the output is read and logged.
_run_build_line ==
    /\ UNCHANGED fnvars
    /\ \E i \in 1..Len(threads) :
          /\ threads[i].at = "read"
          /\ threads[i].out # <<>>
          /\ log_queue' = Append(log_queue,
                                 Entry(i, "line", rstrip(Head(threads[i].out)), 0))
          /\ threads' = [threads EXCEPT ![i] = [@ EXCEPT !.out = Tail(@)]]
    /\ UNCHANGED <<build_thread, log>>
    /\ UNCHANGED <<script_var, scan_all_var, auto_data_dirs_var, manual_datas,
                   manual_hidden, detected_imports, detected_dynamic,
                   detected_literal_files, detected_collect_all, imports_list,
                   datas_list, removed>>

\* Lines 818-825: end of output, the process has exited with rc, the result
\* is logged.
_run_build_wait ==
    /\ UNCHANGED fnvars
    /\ \E i \in 1..Len(threads), rc \in ExitCodes, dist \in BOOLEAN :
          /\ threads[i].at = "read"
          /\ threads[i].out = <<>>
          /\ log_queue' = log_queue \o ExitEntries(i, rc, dist)
          /\ threads' = [threads EXCEPT ![i] = [@ EXCEPT !.at = "logged",
                                                         !.exited = TRUE, !.rc = rc]]
    /\ UNCHANGED <<build_thread, log>>
    /\ UNCHANGED <<script_var, scan_all_var, auto_data_dirs_var, manual_datas,
                   manual_hidden, detected_imports, detected_dynamic,
                   detected_literal_files, detected_collect_all, imports_list,
                   datas_list, removed>>

\* _run_build returns: the thread is no longer alive.
_run_build_return ==
    /\ UNCHANGED fnvars
    /\ \E i \in 1..Len(threads) :
          /\ threads[i].at = "logged"
          /\ threads' = [threads EXCEPT ![i] = [@ EXCEPT !.at = "done"]]
    /\ UNCHANGED <<build_thread, log_queue, log>>
    /\ UNCHANGED <<script_var, scan_all_var, auto_data_dirs_var, manual_datas,
                   manual_hidden, detected_imports, detected_dynamic,
                   detected_literal_files, detected_collect_all, imports_list,
                   datas_list, removed>>

\* Lines 639-649: the queue is emptied into the log widget.
_poll_log ==
    /\ UNCHANGED fnvars
    /\ log_queue # <<>>
    /\ log' = log \o log_queue
    /\ log_queue' = <<>>
    /\ UNCHANGED <<build_thread, threads>>
    /\ UNCHANGED <<script_var, scan_all_var, auto_data_dirs_var, manual_datas,
                   manual_hidden, detected_imports, detected_dynamic,
                   detected_literal_files, detected_collect_all, imports_list,
                   datas_list, removed>>

Init == pc = "gui" /\ args = <<>> /\ ret = <<>> /\ GuiInit

Next ==
    \/ ChooseScript
    \/ ToggleScanAll
    \/ ToggleAutoDataDirs
    \/ _add_file_data
    \/ _add_dir_data
    \/ _remove_selected_datas
    \/ _remove_selected_imports
    \/ _analyze
    \/ _load_profile

Spec == Init /\ [][Next]_vars

(***************************************************************************)
(* SpecBuild: build triggers, analyses and profile loads of the main       *)
(* thread interleaved with the steps of the build threads.                 *)
(***************************************************************************)
BuildInit == pc = "build" /\ args = <<>> /\ ret = <<>> /\ GuiInit

BuildNext ==
    \/ _analyze
    \/ _load_profile
    \/ _build
    \/ _run_build_Popen
    \/ _run_build_except
    \/ _run_build_line
    \/ _run_build_wait
    \/ _run_build_return
    \/ _poll_log

SpecBuild == BuildInit /\ [][BuildNext]_vars


(***************************************************************************)
(* What the claims speak of, stated without the operators above.           *)
(***************************************************************************)
\* The text of name before its first dot.
TopSegment(name) ==
    LET dots == {i \in 1..Len(name) : name[i] = "."}
        cut == IF dots = {} THEN Len(name)
               ELSE (CHOOSE i \in dots : \A j \in dots : i <= j) - 1
    IN  SubSeq(name, 1, cut)

\* The node a path denotes is a regular file.
IsRegularFile(fs, p) == Stat(fs, p) \in DOMAIN fs /\ fs[Stat(fs, p)].kind = "file"

SameFile(fs, p, q) == Resolve(fs, p) = Resolve(fs, q)

NoDuplicates(s) == \A i, j \in 1..Len(s) : i # j => s[i] # s[j]

(***************************************************************************)
(* C1.  A name the user removed with _remove_selected_imports, from        *)
(* whichever of the static, dynamic and manual sets it came, is not in the *)
(* hidden-import list _assemble_hidden_imports hands to the next build.    *)
(* removed holds the names removed since the detected sets were last       *)
(* filled.  Violated: only detected_imports loses a removed name; a name   *)
(* of detected_dynamic or manual_hidden stays in the list.                 *)
(***************************************************************************)
C1_RemovedNeverHidden ==
    \A name \in removed : name \notin Range(_assemble_hidden_imports)

(***************************************************************************)
(* C2.  map_add_data_entries never returns the same (source, destination)  *)
(* pair twice for pairwise-distinct input paths (here: paths of regular    *)
(* files, as the scanner delivers them).  Violated: two distinct paths of  *)
(* one file (a symlink and its target, a path through "..") are resolved   *)
(* to the same source and get the same destination.                        *)
(***************************************************************************)
C2_MapEntriesDistinct ==
    (pc = "map_add_data_entries"
        /\ NoDuplicates(args.paths)
        /\ \A i \in 1..Len(args.paths) : is_file(args.fs, args.paths[i]))
    => NoDuplicates(ret.mapped)

(***************************************************************************)
(* C3.  Whatever was added, removed, analyzed or loaded, the list          *)
(* _assemble_datas returns for a build holds no (source, destination) pair *)
(* twice.  Violated: manual_datas is copied into the result unchecked, and *)
(* adding one file twice puts the same pair into manual_datas twice.       *)
(***************************************************************************)
C3_AssembledDatasDistinct ==
    ScriptOk(script_var) => \A datas \in _assemble_datas : NoDuplicates(datas)

(***************************************************************************)
(* C4.  In one scan no file on disk is passed to the extractors twice:     *)
(* two members of the scanned set never denote the same file.  Violated:   *)
(* the entry path is kept as given while the globbed paths are resolved.   *)
(***************************************************************************)
C4_EachFileScannedOnce ==
    pc = "scan_project" =>
        \A f, g \in ret.files : SameFile(args.fs, f, g) => f = g

(***************************************************************************)
(* C5.  A module whose source file lies under the project root of the      *)
(* chosen script is in neither detected set after an analysis.  Violated:  *)
(* is_third_party is not told the project root; a project module that      *)
(* find_spec locates in the project directory has an origin outside the    *)
(* standard library and is classified third-party.                         *)
(***************************************************************************)
C5_LocalModuleNeverDetected ==
    ScriptOk(script_var) =>
        \A lm \in LocalModules :
            is_file(GuiFs, Join(Parent(Resolve(GuiFs, script_var)), <<lm[2]>>))
                => lm[1] \notin detected_imports \cup detected_dynamic

(***************************************************************************)
(* C6.  is_third_party is the ordered decision procedure on the top-level  *)
(* segment: empty -> false; in the standard-library set -> false; a key of *)
(* the package map -> true; lookup error -> true; no spec, no origin or    *)
(* built-in -> false; origin in the standard-library directory -> false,   *)
(* outside it -> true.                                                     *)
(***************************************************************************)
InStdlibDir(fs, origin) == IsPrefix(Resolve(fs, StdlibPath), Resolve(fs, origin))

Decision(mod, stdlib, pkg_map, found, fs) ==
    LET seg == TopSegment(mod)
    IN  CASE seg = <<>> -> FALSE
          [] seg # <<>> /\ seg \in stdlib -> FALSE
          [] seg # <<>> /\ seg \notin stdlib /\ seg \in DOMAIN pkg_map -> TRUE
          [] OTHER ->
                CASE found.kind = "error" -> TRUE
                  [] found.kind = "none" -> FALSE
                  [] found.kind = "spec" /\ found.tag \in {"None", "built-in"} -> FALSE
                  [] OTHER -> ~InStdlibDir(fs, found.path)

C6_DecisionProcedure ==
    pc = "is_third_party" =>
        ret.result = Decision(args.mod, args.stdlib, args.pkg_map, args.found, args.env.fs)

\* A name both in the standard-library set and a key of the package map.
C6_Witness ==
    /\ pc = "is_third_party"
    /\ args.mod = Nab
    /\ Na \in args.stdlib /\ Na \in DOMAIN args.pkg_map
    /\ ret.result = FALSE

(***************************************************************************)
(* C7.  The call's argument is its first positional argument when that is  *)
(* a string literal, else a name=/module= keyword that is one.             *)
(***************************************************************************)
IsDynamicImportCall(call) ==
    call.func.type \in {"Attribute", "Name"}
    /\ call.func.id \in {"import_module", "__import__"}

IsStrLiteral(node) == node.type = "Constant" /\ node.isstr

LiteralKeywords(call) ==
    {i \in 1..Len(call.keywords) :
        call.keywords[i].arg \in {"name", "module"} /\ IsStrLiteral(call.keywords[i].value)}

FirstOf(S) == CHOOSE i \in S : \A j \in S : i <= j

\* As the claim reads: the first literal found, empty or not.
ClaimedLiteral(call) ==
    IF call.args # <<>> /\ IsStrLiteral(call.args[1]) THEN SomeStr(call.args[1].value)
    ELSE IF LiteralKeywords(call) # {}
    THEN SomeStr(call.keywords[FirstOf(LiteralKeywords(call))].value.value)
    ELSE NoneStr

\* As the code reads: a positional literal is final; among the keywords the
\* first non-empty literal counts.
NonEmptyLiteralKeywords(call) ==
    {i \in LiteralKeywords(call) : call.keywords[i].value.value # <<>>}

EffectiveLiteral(call) ==
    IF call.args # <<>> /\ IsStrLiteral(call.args[1]) THEN SomeStr(call.args[1].value)
    ELSE IF NonEmptyLiteralKeywords(call) # {}
    THEN SomeStr(call.keywords[FirstOf(NonEmptyLiteralKeywords(call))].value.value)
    ELSE NoneStr

\* C7 as claimed: every literal, the empty one included, puts its top-level
\* name into dynamic_imports.
C7_EveryLiteralAdded ==
    (pc = "parse_dynamic" /\ IsDynamicImportCall(args.call)) =>
        IF ClaimedLiteral(args.call).some
        THEN TopSegment(ClaimedLiteral(args.call).val) \in ret.dynamic
        ELSE ret.dynamic = {}

\* C7 as amended: a non-empty literal (a leading dot gives the empty
\* top-level name) puts its top-level name into dynamic_imports and nothing
\* else; an empty literal, a non-literal argument and a callee of another
\* name add nothing.
C7_NonEmptyLiteralAdded ==
    pc = "parse_dynamic" =>
        IF IsDynamicImportCall(args.call) /\ Truthy(EffectiveLiteral(args.call))
        THEN ret.dynamic = {TopSegment(EffectiveLiteral(args.call).val)}
        ELSE ret.dynamic = {}

\* A non-literal positional argument, an empty name= and then module="b".
C7_Witness ==
    /\ pc = "parse_dynamic"
    /\ IsDynamicImportCall(args.call)
    /\ args.call.args = <<NameNode>>
    /\ args.call.keywords = <<[arg |-> "name", value |-> ConstStr(<<>>)],
                              [arg |-> "module", value |-> ConstStr(Nb)]>>
    /\ ret.dynamic = {Nb}

(***************************************************************************)
(* C8.  A file of static import statements only: the imports returned are  *)
(* exactly the top-level segments of the modules its statements name, and  *)
(* no dynamic import is returned.                                          *)
(***************************************************************************)
NamedModules(tree) ==
    UNION {Range(tree[i].names) : i \in {j \in 1..Len(tree) : tree[j].type = "Import"}}
    \cup {tree[i].module.val :
            i \in {j \in 1..Len(tree) : tree[j].type = "ImportFrom" /\ tree[j].module.some}}

C8_StaticImportsExact ==
    pc = "parse_static" =>
        /\ ret.imports = {TopSegment(n) : n \in NamedModules(args.src.tree)}
        /\ ret.dynamic = {}

\* import a.b, a  and  from . import x: one name, a.
C8_Witness ==
    /\ pc = "parse_static"
    /\ args.src.tree = <<ImportNode(<<Nab, Na>>), ImportFromNode(NoneStr)>>
    /\ ret.imports = {Na}

(***************************************************************************)
(* C9.  Every path find_literal_files returns is a regular file at the     *)
(* time of the check, comes from a match (a relative match resolved        *)
(* against the scanned file's directory, an absolute match as it stands),  *)
(* and no match that is missing or a directory is returned.                *)
(***************************************************************************)
MatchPath(py_file, raw, fs) ==
    IF Head(raw) = "/" THEN raw
    ELSE Resolve(fs, Absolute(Parent(py_file)) \o raw)

C9_LiteralFilesExist ==
    pc = "find_literal_files" =>
        /\ \A p \in ret.found :
              /\ IsRegularFile(args.fs, p)
              /\ \E raw \in Range(args.src.matches) : p = MatchPath(args.py_file, raw, args.fs)
        /\ \A raw \in Range(args.src.matches) :
              ~IsRegularFile(args.fs, MatchPath(args.py_file, raw, args.fs))
                 => MatchPath(args.py_file, raw, args.fs) \notin ret.found

\* a.txt is a directory and is dropped; the absolute symlink is kept as
\* written.
C9_Witness ==
    /\ pc = "find_literal_files"
    /\ args.py_file = P3("proj", "sub", "mod.py")
    /\ args.src.matches = <<<<"..", "a.txt">>, P2("ext", "c.csv")>>
    /\ Kind(args.fs, P2("proj", "a.txt")) = "dir"
    /\ ret.found = {P2("ext", "c.csv")}

(***************************************************************************)
(* C10.  scan_project returns whatever files fail: a file that cannot be   *)
(* read or parsed contributes no import and no dynamic import, and the     *)
(* three result sets are the unions of the files' contributions.           *)
(***************************************************************************)
Fails(src) == ~src.readable \/ ~src.parses

Contribution(f, a) ==
    LET src == ReadSrc(a.fs, a.disk, f)
    IN  [imports |-> IF Fails(src) THEN {}
                     ELSE {TopSegment(n) : n \in NamedModules(src.tree)},
         dynamic |-> IF Fails(src) THEN {}
                     ELSE {TopSegment(EffectiveLiteral(src.tree[i]).val) :
                             i \in {j \in 1..Len(src.tree) :
                                      /\ src.tree[j].type = "Call"
                                      /\ IsDynamicImportCall(src.tree[j])
                                      /\ Truthy(EffectiveLiteral(src.tree[j]))}},
         literal |-> IF ~src.readable THEN {}
                     ELSE {p \in {MatchPath(f, raw, a.fs) : raw \in Range(src.matches)} :
                             IsRegularFile(a.fs, p)}]

C10_ScanNeverAborts ==
    pc = "scan_project" =>
        /\ ~ret.raised
        /\ ret.imports = UNION {Contribution(f, args).imports : f \in ret.files}
        /\ ret.dynamic_imports = UNION {Contribution(f, args).dynamic : f \in ret.files}
        /\ ret.literal_files = UNION {Contribution(f, args).literal : f \in ret.files}

\* One file unreadable, one unparseable, the entry script sound.
C10_Witness ==
    /\ pc = "scan_project"
    /\ args.scan_all_py
    /\ args.script_path = P2("proj", "main.py")
    /\ ~args.disk[P2("proj", "util.py")].readable
    /\ args.disk[P3("proj", "sub", "mod.py")].readable
    /\ ~args.disk[P3("proj", "sub", "mod.py")].parses
    /\ ~ret.raised
    /\ ret.imports = {Na}
    /\ ret.dynamic_imports = {Nb}
    /\ ret.literal_files = {P2("proj", "a.txt"), P3("proj", "data", "b.json")}

(***************************************************************************)
(* C11.  map_add_data_entries returns one pair for each input path, in the *)
(* input's order; the destination is the parent directory relative to the  *)
(* project root for a file under the root ("." at the root), the path      *)
(* relative to the root for a directory under it, the base name for a path *)
(* outside it.                                                             *)
(***************************************************************************)
\* Where a path lies as it is written: made absolute, "." and ".." taken out,
\* no link followed.
RECURSIVE Collapse(_, _)
Collapse(done, rest) ==
    IF rest = <<>> THEN done
    ELSE IF Head(rest) = "." THEN Collapse(done, Tail(rest))
    ELSE IF Head(rest) = ".."
    THEN Collapse(IF Len(done) > 1 THEN SubSeq(done, 1, Len(done) - 1) ELSE done,
                  Tail(rest))
    ELSE Collapse(Append(done, Head(rest)), Tail(rest))

Located(p) == Collapse(<<"/">>, Tail(Absolute(p)))

Under(root, p) == Len(root) <= Len(p) /\ SubSeq(p, 1, Len(root)) = root

RelativeTo(root, p) == SubSeq(p, Len(root) + 1, Len(p))

DotIfEmpty(rel) == IF rel = <<>> THEN <<".">> ELSE rel

\* The destination the three cases give to a path lying at where; <<>> where
\* they give none (a path under the root that is neither file nor directory).
Destination(where, root, isFile, isDir) ==
    IF ~Under(root, where) THEN <<where[Len(where)]>>
    ELSE IF isFile
    THEN DotIfEmpty(SubSeq(RelativeTo(root, where), 1, Len(RelativeTo(root, where)) - 1))
    ELSE IF isDir THEN DotIfEmpty(RelativeTo(root, where))
    ELSE <<>>

\* C11 of the input path as it is written.  Violated: a link under the root
\* to a file outside it is mapped as the outside file.
C11_DestinationOfInputPath ==
    pc = "map_add_data_entries" =>
        /\ Len(ret.mapped) = Len(args.paths)
        /\ \A i \in 1..Len(args.paths) :
              LET dest == Destination(Located(args.paths[i]), args.project_root,
                                      IsRegularFile(args.fs, args.paths[i]),
                                      is_dir(args.fs, args.paths[i]))
              IN  dest # <<>> => ret.mapped[i][2] = dest

\* C11 of the resolved path: the i-th pair is the i-th input resolved, with
\* the destination of the place it resolves to; a path under the root that
\* is no regular file is mapped like a directory.
C11_DestinationOfResolvedPath ==
    pc = "map_add_data_entries" =>
        /\ Len(ret.mapped) = Len(args.paths)
        /\ \A i \in 1..Len(args.paths) :
              LET source == Resolve(args.fs, args.paths[i])
                  isFile == IsRegularFile(args.fs, args.paths[i])
              IN  /\ ret.mapped[i][1] = source
                  /\ ret.mapped[i][2] =
                        Destination(source, args.project_root, isFile, ~isFile)

\* A file in a subdirectory, then the root's data directory.
C11_Witness ==
    /\ pc = "map_add_data_entries"
    /\ args.paths = <<P3("proj", "data", "b.json"), P2("proj", "data")>>
    /\ ret.mapped = <<<<P3("proj", "data", "b.json"), <<"data">>>>,
                      <<P2("proj", "data"), <<"data">>>>>>

(***************************************************************************)
(* C12.  build_command returns the interpreter and the bundler module,     *)
(* then the options in one fixed order (--clean, --noconfirm, one of       *)
(* --onefile / --onedir, --windowed, --name, --icon, --add-data,           *)
(* --hidden-import, --collect-all, --paths, --noupx, --runtime-tmpdir,     *)
(* --version-file), the list options once per element in input order, and  *)
(* the entry script last.  The command is a function of the parameters and *)
(* of what env holds, so that two calls with the same input agree.         *)
(***************************************************************************)
OptionRank(o) ==
    CASE o = "-m" -> 0
      [] o = "--clean" -> 1
      [] o = "--noconfirm" -> 2
      [] o \in {"--onefile", "--onedir"} -> 3
      [] o = "--windowed" -> 4
      [] o = "--name" -> 5
      [] o = "--icon" -> 6
      [] o = "--add-data" -> 7
      [] o = "--hidden-import" -> 8
      [] o = "--collect-all" -> 9
      [] o = "--paths" -> 10
      [] o = "--noupx" -> 11
      [] o = "--runtime-tmpdir" -> 12
      [] o = "--version-file" -> 13
      [] OTHER -> 14

ListOptions == {"--add-data", "--hidden-import", "--collect-all", "--paths"}

ValueOptions ==
    ListOptions \cup {"-m", "--name", "--icon", "--runtime-tmpdir", "--version-file"}

IsOpt(x) == DOMAIN x = {"opt"}

OptionsAt(cmd) == {i \in 1..Len(cmd) : IsOpt(cmd[i])}

Has(cmd, o) == \E i \in OptionsAt(cmd) : cmd[i].opt = o

\* The values that follow the occurrences of option o, in order.
RECURSIVE Following(_, _)
Following(cmd, o) ==
    IF Len(cmd) < 2 THEN <<>>
    ELSE IF IsOpt(cmd[1]) /\ cmd[1].opt = o /\ ~IsOpt(cmd[2])
    THEN <<cmd[2].arg>> \o Following(Tail(Tail(cmd)), o)
    ELSE Following(Tail(cmd), o)

DataText(pair, os_name) ==
    StrOfPath(pair[1]) \o (IF os_name = "nt" THEN <<";">> ELSE <<":">>) \o StrOfPath(pair[2])

C12_FixedArgumentOrder ==
    pc = "build_command" =>
        LET cmd == ret.cmd
            a == args.a
            extra == IF a.extra_paths.some THEN a.extra_paths.val ELSE <<>>
        IN  /\ Len(cmd) >= 5
            /\ cmd[1] = [arg |-> args.env.executable]
            /\ cmd[2] = [opt |-> "-m"]
            /\ cmd[Len(cmd)] = [arg |-> StrOfPath(a.script_path)]
            /\ \A i, j \in OptionsAt(cmd) :
                  i < j => /\ OptionRank(cmd[i].opt) <= OptionRank(cmd[j].opt)
                           /\ cmd[i].opt = cmd[j].opt => cmd[i].opt \in ListOptions
            /\ \A i \in OptionsAt(cmd) : OptionRank(cmd[i].opt) < 14
            /\ \A i \in 1..(Len(cmd) - 2) :
                  IsOpt(cmd[i + 1]) \/ (IsOpt(cmd[i]) /\ cmd[i].opt \in ValueOptions)
            /\ \A i \in OptionsAt(cmd) : cmd[i].opt \in ValueOptions => ~IsOpt(cmd[i + 1])
            /\ Has(cmd, "--onefile") = a.onefile
            /\ Has(cmd, "--onedir") = ~a.onefile
            /\ Has(cmd, "--clean") = a.clean
            /\ Has(cmd, "--noconfirm") = a.noconfirm
            /\ Has(cmd, "--windowed") = a.windowed
            /\ Has(cmd, "--noupx") = a.noupx
            /\ Following(cmd, "--name") = (IF Truthy(a.name) THEN <<a.name.val>> ELSE <<>>)
            /\ Following(cmd, "--runtime-tmpdir")
                  = (IF Truthy(a.runtime_tmpdir) THEN <<a.runtime_tmpdir.val>> ELSE <<>>)
            /\ Following(cmd, "--add-data")
                  = [i \in 1..Len(a.add_datas) |-> DataText(a.add_datas[i], args.env.os_name)]
            /\ Following(cmd, "--hidden-import") = a.hidden_imports
            /\ Following(cmd, "--collect-all") = a.collect_all_pkgs
            /\ Following(cmd, "--paths") = [i \in 1..Len(extra) |-> StrOfPath(extra[i])]

\* Every option is given.
C12_Witness ==
    /\ pc = "build_command"
    /\ args.a.clean /\ args.a.noconfirm /\ args.a.onefile /\ args.a.windowed
    /\ args.a.noupx
    /\ args.a.add_datas = <<DataB, DataA>>
    /\ args.a.hidden_imports = <<Nb, Na>>
    /\ \A o \in {"--name", "--icon", "--collect-all", "--paths", "--runtime-tmpdir",
                  "--version-file"} : Has(ret.cmd, o)
    /\ Following(ret.cmd, "--hidden-import") = <<Nb, Na>>
    /\ Len(ret.cmd) = 31

(***************************************************************************)
(* C13.  --icon and its value are in the command exactly when an icon path *)
(* is given and exists, --version-file and its value exactly when a        *)
(* version file is given and exists; with a path that is not on disk the   *)
(* command is the one built with no such path given.                       *)
(***************************************************************************)
C13_MissingFileOmitted ==
    pc = "build_command" =>
        LET cmd == ret.cmd
            a == args.a
            iconThere == a.icon_path.some /\ Stat(args.env.fs, a.icon_path.val) # <<>>
            versionThere == a.version_file.some
                            /\ Stat(args.env.fs, a.version_file.val) # <<>>
        IN  /\ Has(cmd, "--icon") = iconThere
            /\ Following(cmd, "--icon")
                  = (IF iconThere THEN <<StrOfPath(a.icon_path.val)>> ELSE <<>>)
            /\ Has(cmd, "--version-file") = versionThere
            /\ Following(cmd, "--version-file")
                  = (IF versionThere THEN <<StrOfPath(a.version_file.val)>> ELSE <<>>)
            /\ ~iconThere => cmd = build_command([a EXCEPT !.icon_path = NonePath], args.env)
            /\ ~versionThere
                  => cmd = build_command([a EXCEPT !.version_file = NonePath], args.env)

\* An icon path that is not on disk, a version file that is.
C13_Witness ==
    /\ pc = "build_command"
    /\ args.a.icon_path = SomePath(P2("proj", "a.txt"))
    /\ args.a.version_file = SomePath(P2("ext", "c.csv"))
    /\ Stat(args.env.fs, P2("proj", "a.txt")) = <<>>
    /\ Stat(args.env.fs, P2("ext", "c.csv")) # <<>>
    /\ ~Has(ret.cmd, "--icon")
    /\ Has(ret.cmd, "--version-file")

(***************************************************************************)
(* C14.  suggest_collect_all returns a strictly ascending list of exactly  *)
(* the bundling names of the modules whose top-level segment is in         *)
(* HEAVY_LIBS, Pillow standing for PIL; PIL itself is never returned.      *)
(***************************************************************************)
BundlingName(top) == IF top = NPIL THEN NPillow ELSE top

C14_SuggestionsSortedExact ==
    pc = "suggest_collect_all" =>
        LET l == ret.suggested
        IN  /\ \A i, j \in 1..Len(l) : i < j => StrLess(l[i], l[j])
            /\ Range(l) = {BundlingName(TopSegment(m)) :
                              m \in {n \in args.imports : TopSegment(n) \in HEAVY_LIBS}}
            /\ NPIL \notin Range(l)

\* PIL.Image and Pillow give one Pillow; requests gives nothing.
C14_Witness ==
    /\ pc = "suggest_collect_all"
    /\ args.imports = {NPILImage, NPillow, Nrequests, Nyaml}
    /\ ret.suggested = <<NPillow, Nyaml>>

(***************************************************************************)
(* C15.  Saving a profile and then loading it gives every field of the     *)
(* user the value it had before the save: script, name, icon, the flags,   *)
(* the extra paths, the manual mappings, the manual hidden imports, the    *)
(* runtime temp directory and the metadata, whatever their values,         *)
(* leading and trailing whitespace included.  Violated: _save_profile      *)
(* writes script, name and icon stripped.                                  *)
(***************************************************************************)
C15_RoundTripExact ==
    (pc = "save_load_profile" /\ ret.saved) => ret.loaded = args.gui

(***************************************************************************)
(* C16.  Every step of _load_profile ends with the four detected fields    *)
(* holding the analysis of the script named in the loaded profile, under   *)
(* the loaded scan flag; for a profile whose script is empty or does not   *)
(* exist that analysis has found nothing.  Violated: _analyze returns      *)
(* before it assigns anything when the script is empty or missing, and the *)
(* fields keep what the previous analysis found.                           *)
(***************************************************************************)
NothingDetected ==
    [imports |-> {}, dynamic |-> {}, literal_files |-> {}, collect_all |-> <<>>]

DetectedNow ==
    [imports |-> detected_imports, dynamic |-> detected_dynamic,
     literal_files |-> detected_literal_files, collect_all |-> detected_collect_all]

DetectedIsOfScript ==
    IF script_var # <<>> /\ IsRegularFile(GuiFs, script_var)
    THEN \E env \in GuiEnvs : DetectedNow = AnalysisOf[<<script_var, scan_all_var, env>>]
    ELSE DetectedNow = NothingDetected

C16_LoadShowsAnalysisOfLoadedScript == [][_load_profile => DetectedIsOfScript']_vars

(***************************************************************************)
(* C19.  A step of _remove_selected_datas with the rows sel selected       *)
(* leaves in manual_datas exactly the mappings whose own rows (the first   *)
(* Len(manual_datas) rows of the list) were not selected, in their order;  *)
(* selected rows of detected files and automatic directories change        *)
(* nothing.  Violated: a mapping is removed when the text of a selected    *)
(* row starts with its path, and the (auto) row of a detected file or the  *)
(* (auto-dir) row of a directory starts with the path of the manual        *)
(* mapping of that file or directory.                                      *)
(***************************************************************************)
RECURSIVE Unselected(_, _, _)
Unselected(manual, sel, i) ==
    IF i > Len(manual) THEN <<>>
    ELSE (IF i \in sel THEN <<>> ELSE <<manual[i]>>) \o Unselected(manual, sel, i + 1)

C19_OnlySelectedMappingsRemoved ==
    [][\A sel \in Selections(Len(datas_list)) :
          (_remove_selected_datas
              /\ manual_datas' = RemoveSelected(manual_datas, datas_list, sel))
          => manual_datas' = Unselected(manual_datas, sel, 1)]_vars

(***************************************************************************)
(* C17.  Once the process of a build thread has exited with a nonzero      *)
(* code, what this thread has enqueued, in the order it was enqueued (the  *)
(* log widget, then the queue), is one entry for every line the process    *)
(* wrote, in the order written, each the line's text up to trailing white  *)
(* space, and after them one failure message that carries the exit code.   *)
(* A thread whose process has exited starts no other process, and a new    *)
(* thread comes only from a step of _build.                                *)
(***************************************************************************)
History == log \o log_queue

EntriesOf(i) == SelectSeq(History, LAMBDA e : e.by = i)

IsLineOf(text, line) ==
    /\ IsPrefix(text, line)
    /\ \A k \in (Len(text) + 1)..Len(line) : line[k] \in {" ", "\t", "\n"}
    /\ (text = <<>> \/ text[Len(text)] \notin {" ", "\t", "\n"})

FailureReported ==
    \A i \in 1..Len(threads) :
        (threads[i].exited /\ threads[i].rc # 0) =>
            LET es == EntriesOf(i)
                wrote == threads[i].wrote
            IN  /\ Len(es) = Len(wrote) + 1
                /\ \A k \in 1..Len(wrote) :
                      es[k].kind = "line" /\ IsLineOf(es[k].text, wrote[k])
                /\ es[Len(es)].kind = "failed"
                /\ es[Len(es)].rc = threads[i].rc

NoRetry ==
    /\ Len(threads') >= Len(threads)
    /\ Len(threads') > Len(threads) => _build
    /\ \A i \in 1..Len(threads) :
          threads[i].exited =>
              threads'[i].exited /\ threads'[i].at \in {"logged", "done"}

Alive == {i \in 1..Len(threads) : threads[i].at # "done"}

Running == {i \in 1..Len(threads) : threads[i].at = "read"}

====
